---- MODULE Spec2Model ----
(***************************************************************************)
(* go-check-spam: counting the messages of the SPAM label per local        *)
(* calendar date.                                                          *)
(*                                                                         *)
(* The repository holds several generations of the same two functions:     *)
(*   listSpamMessages  pages through the label and fetches every message    *)
(*   getSpamCounts     folds the fetched messages into a date histogram    *)
(* The variable `variant` selects the generation that is running:          *)
(*   "semaphore"  src/unnamed/part_000  (errgroup + token channel)         *)
(*   "pool"       src/main.go           (fixed workers + two channels)     *)
(*   "swift"      src/unnamed/part_003  (AsyncStream + detached tasks)     *)
(*   "legacy"     src/unnamed/part_001  (goroutine per message, no limit)  *)
(*                                                                         *)
(* Beside the pipeline the module holds retryWithBackoff of part_000, the   *)
(* jitter step before a fetch, Fib of src/fib.go, saveToken, tokenFromFile *)
(* and getTokenFromWeb of src/gmailauth.go, and printSpamSummary of        *)
(* part_000 and main.go, each with a specification of its own.             *)
(*                                                                         *)
(* An instant (Go's int64 milliseconds since the epoch) is the record      *)
(* [sec, milli] standing for sec * 1000 + milli with milli in 0..999: the  *)
(* model checker's integers have 32 bits and cannot hold the product.      *)
(***************************************************************************)
EXTENDS Integers, Sequences, FiniteSets, TLC

\* ------------------------------------------------------------------------
\* Bounds of the model
\* ------------------------------------------------------------------------

\* longest message list handed to getSpamCounts by the stub of SpecAgg
MaxLen == 3

\* identifiers the remote holds at most, and pages it serves at most
MaxIds == 2
MaxPages == 2

\* largest configured number of concurrent fetches (8 in part_000, the
\* -workers flag in main.go)
MaxWorkers == 2

\* attempts of one retryWithBackoff inside a run of the pipeline
\* (maxAttempts, 8 in the source)
AttemptBound == 2

\* capacity of jobChan and of msgChan (100 in main.go)
ChanCap == 1

\* ------------------------------------------------------------------------
\* Instants and calendar dates
\* ------------------------------------------------------------------------

Ms(s, m) == [sec |-> s, milli |-> m]

\* internalDateMs <= 0 on the int64 value
NonPositive(t) == t.sec < 0 \/ (t.sec = 0 /\ t.milli = 0)

\* Go's internalDateMs / 1000: integer division truncates toward zero
TruncSeconds(t) == IF t.sec < 0 /\ t.milli > 0 THEN t.sec + 1 ELSE t.sec

\* time.UnixMilli(ms): whole seconds, rounded down, of the instant
FloorSeconds(t) == t.sec

\* proleptic Gregorian date of a day number counted from 1970-01-01
CivilFromDays(days) ==
    LET z   == days + 719468
        era == z \div 146097
        doe == z - era * 146097
        yoe == (doe - doe \div 1460 + doe \div 36524 - doe \div 146096) \div 365
        doy == doe - (365 * yoe + yoe \div 4 - yoe \div 100)
        mp  == (5 * doy + 2) \div 153
        d   == doy - (153 * mp + 2) \div 5 + 1
        m   == IF mp < 10 THEN mp + 3 ELSE mp - 9
        y   == yoe + era * 400 + (IF m <= 2 THEN 1 ELSE 0)
    IN  [year |-> y, month |-> m, day |-> d]

\* the calendar date of the instant in UTC, whatever the zone
LocalDateInUTC(secs, off) == CivilFromDays(secs \div 86400)

\* the calendar date, in the zone whose offset is `off` seconds, of the
\* instant `secs` seconds after the epoch
LocalDate(secs, off) == CivilFromDays((secs + off) \div 86400)

Digit(n) == ToString(n % 10)
Digits2(n) == <<Digit(n \div 10), Digit(n)>>

RECURSIVE DigitsOf(_)
\* the decimal digits of n >= 0, without padding
DigitsOf(n) == IF n < 10 THEN <<Digit(n)>> ELSE DigitsOf(n \div 10) \o <<Digit(n)>>

\* appendInt(b, year, 4): zero-padded to four digits, longer when the number is
Digits4(n) ==
    IF n >= 10000 THEN DigitsOf(n)
    ELSE <<Digit(n \div 1000), Digit(n \div 100), Digit(n \div 10), Digit(n)>>

\* Format("2006-01-02"): the key as its sequence of characters
FormatDate(c) == Digits4(c.year) \o <<"-">> \o Digits2(c.month) \o <<"-">> \o Digits2(c.day)

\* ------------------------------------------------------------------------
\* State
\* ------------------------------------------------------------------------

VARIABLES
    variant,      \* which generation of the program runs
    nworkers,     \* maxWorkers (part_000) / *workers (main.go)
    tz,           \* offset in seconds of time.Local from UTC
    deadline,     \* the -timeout timer has elapsed
    extCancel,    \* the context handed in by the caller is cancelled
    ctxErr,       \* Err() of the context the run derives and gives its goroutines
    early,        \* the timer elapsed while listing or fetching was unfinished
    pc,           \* "running" / "returned": listSpamMessages as its caller sees it
    ret,          \* what listSpamMessages returned: [val, err]
    messages,     \* the slice the fetched messages are appended to
    lpc,          \* position of the listing loop; at its end "done" (no further
                  \* page), "failed" (list call given up), "stopped" (context done)
    listTry,      \* retryWithBackoff's i for the list call
    pageNo,       \* pages the remote has returned so far
    total,        \* identifiers handed on so far (the progress counter)
    pageEnd,      \* identifiers returned by all pages so far
    hasNext,      \* the last page carried a NextPageToken
    pageToken,    \* the loop's variable pageToken; 0 is the empty string
    reqToken,     \* the page token the last list request carried; 0 is none
    respToken,    \* NextPageToken of the last list response; 0 is the empty string
    st,           \* per identifier: where its fetch stands
    try,          \* per identifier: retryWithBackoff's i for the get call
    sem,          \* tokens held in the channel sem
    mu,           \* part_000: the task that holds the mutex mu; 0 when it is free
    jobChan,      \* main.go: buffered channel of identifiers
    msgChan,      \* main.go: buffered channel of fetched messages; swift: the stream
    jobClosed,    \* close(jobChan) has run
    msgClosed,    \* close(msgChan) has run; swift: continuation.finish()
    wk,           \* main.go: per worker goroutine [pc, job]
    dailyCounts,  \* getSpamCounts: the histogram
    aggPc,        \* getSpamCounts: "call" (in listSpamMessages), "done", "failed"
    rpc,          \* retryWithBackoff: "off", "top", "op", "sleep", "returned"
    ri,           \* retryWithBackoff: the loop variable i
    rwait,        \* retryWithBackoff: wait, in milliseconds
    rjit,         \* retryWithBackoff: jitter of the sleep in progress, in milliseconds
    rcalls,       \* retryWithBackoff: calls of op made so far
    rsleeps,      \* retryWithBackoff: sleeps started so far
    rerr,         \* retryWithBackoff: error of the last call of op: [kind, call]
    rret,         \* retryWithBackoff: the error returned
    rctx,         \* retryWithBackoff: Err() of the context passed in
    initialDelay, \* the -initial-delay flag, in milliseconds
    jpc,          \* the jitter step before a fetch: "off", "start", "sleeping",
                  \* "fetch" (the fetch is attempted), "panic"
    jsleep,       \* the jitter step: milliseconds slept
    intBits,      \* fib.go: width of Go's int on the build, 32 or 64
    value1,       \* Fib.value1, as the limbs of its two's complement pattern
    value2,       \* Fib.value2
    fibRet,       \* what the last call of Fib.Next returned
    fibCalls,     \* calls of Fib.Next made on this Fib
    fibFresh,     \* the Fib was made by NewFib
    tok,          \* gmailauth.go: the token handed to saveToken
    tokFile,      \* the token file: "absent", or its characters
    tokPc,        \* "off", "save", "saved", "fatal", "loaded"
    loaded,       \* what tokenFromFile returned: [tok, err]
    spamCounts,   \* printSpamSummary: the histogram passed in
    cutoffDate,   \* the global cutoffDate, a date key
    dates,        \* printSpamSummary: the sorted keys
    di,           \* printSpamSummary: index of the range loop's next element
    outputState,  \* printSpamSummary: "FirstLine", "BeforeDate", "OnOrAfterDate"
    ptotal,       \* printSpamSummary: its local variable total
    stdout,       \* printSpamSummary: the lines written to standard output
    ppc,          \* printSpamSummary: "off", "call", "loop", "done"
    state,        \* getTokenFromWeb: the state put into the authorization URL
    authCodeChan, \* getTokenFromWeb: the channel of capacity 1
    authCode,     \* getTokenFromWeb: what the select received
    authPc,       \* getTokenFromWeb: "off", "waiting", "received", "shutdown", "fatal"
    request,      \* the last request the handler was called with
    served,       \* requests the handler has answered
    status,       \* the status of the handler's last response; 0 before any
    stdinRead     \* the goroutine reading standard input has read its line

envVars  == <<deadline, extCancel, ctxErr, early>>
tokenVars == <<pageToken, reqToken, respToken>>
listVars == <<lpc, listTry, pageNo, total, pageEnd, hasNext, tokenVars>>
taskVars == <<st, try, sem, mu, mu>>
chanVars == <<jobChan, msgChan, jobClosed, msgClosed, wk>>
pipeVars == <<variant, nworkers, envVars, pc, ret, messages, listVars, taskVars, chanVars>>
aggVars  == <<tz, dailyCounts, aggPc>>
retryVars == <<rpc, ri, rwait, rjit, rcalls, rsleeps, rerr, rret, rctx>>
jitVars  == <<initialDelay, jpc, jsleep>>
fibVars  == <<intBits, value1, value2, fibRet, fibCalls, fibFresh>>
tokVars  == <<tok, tokFile, tokPc, loaded>>
unitVars == <<jitVars, fibVars, tokVars>>
printVars == <<spamCounts, cutoffDate, dates, di, outputState, ptotal, stdout, ppc>>
authVars == <<state, authCodeChan, authCode, authPc, request, served, status, stdinRead>>
uiVars   == <<printVars, authVars>>
vars     == <<pipeVars, aggVars, retryVars, unitVars, uiVars>>

GoVariants  == {"semaphore", "pool"}
AllVariants == {"semaphore", "pool", "swift", "legacy"}

\* ------------------------------------------------------------------------
\* getSpamCounts
\* ------------------------------------------------------------------------

\* a fetched message: Id, InternalDate; `dated` is FALSE when the Swift
\* model's optional internalDate string is missing or is no number
Message(i, t) == [id |-> i, dated |-> TRUE, internalDate |-> t]

\* an assignment that forgets what the map held
IncrementKeepLast(dc, k) == (k :> 1)

\* dailyCounts[emailDate]++ on a Go map / dailyCounts[k, default: 0] += 1
Increment(dc, k) ==
    IF k \in DOMAIN dc THEN [dc EXCEPT ![k] = @ + 1] ELSE dc @@ (k :> 1)

\* the safety check written `< 0`: a zero timestamp passes
InvalidDateStrict(t) == t.sec < 0

\* the safety check `if internalDateMs <= 0 { continue }`
InvalidDate(t) == NonPositive(t)

\* one iteration of the range loop of part_000 and main.go
foldChecked(dc, m, off) ==
    IF InvalidDate(m.internalDate)
    THEN dc
    ELSE Increment(dc, FormatDate(LocalDate(FloorSeconds(m.internalDate), off)))

\* one iteration of the range loop of part_001 and part_004: no check
foldLegacy(dc, m, off) ==
    Increment(dc, FormatDate(LocalDate(TruncSeconds(m.internalDate), off)))

\* one iteration of the loop of GmailService.getSpamCounts
foldSwift(dc, m, off) ==
    IF ~m.dated \/ NonPositive(m.internalDate)
    THEN dc
    ELSE Increment(dc, FormatDate(LocalDate(FloorSeconds(m.internalDate), off)))

fold(v, dc, m, off) ==
    CASE v \in GoVariants -> foldChecked(dc, m, off)
      [] v = "legacy"     -> foldLegacy(dc, m, off)
      [] v = "swift"      -> foldSwift(dc, m, off)

\* offsets time.Local is given: New York (EST, EDT), UTC, Central Europe
TZOffsets == {-18000, -14400, 0, 3600}

RECURSIVE foldAll(_, _, _, _, _)
\* the range loop over the first n messages of l, in order
foldAll(v, dc, l, n, off) ==
    IF n = 0 THEN dc ELSE fold(v, foldAll(v, dc, l, n - 1, off), l[n], off)

\* getSpamCounts once listSpamMessages has returned: an error is passed on
\* with no histogram, an empty list returns the empty histogram, anything
\* else goes through the range loop
getSpamCounts ==
    /\ pc = "returned"
    /\ aggPc = "call"
    /\ aggPc' = IF ret.err # "nil" THEN "failed" ELSE "done"
    /\ dailyCounts' = IF ret.err # "nil" \/ Len(ret.val) = 0
                      THEN dailyCounts
                      ELSE foldAll(variant, dailyCounts, ret.val, Len(ret.val), tz)
    /\ UNCHANGED <<tz, pipeVars, retryVars, unitVars, uiVars>>

AggInit(zones) ==
    /\ tz \in zones
    /\ dailyCounts = <<>>
    /\ aggPc = "call"

\* ------------------------------------------------------------------------
\* retryWithBackoff of part_000
\* ------------------------------------------------------------------------

\* maxAttempts := 8
maxAttempts == 8

\* wait := 300 * time.Millisecond
InitialWaitMs == 300

\* if wait > 10*time.Second { wait = 10 * time.Second }
MaxWaitMs == 10000

\* rand.Intn(200) milliseconds
JitterMs == 200

NoError == [kind |-> "nil", call |-> 0]

\* what a call of op returns: nil, or an error the remote may answer with
\* again (rate limit, transient), or one it will always answer with
OpOutcomes == {"nil", "Transient", "Fatal"}

\* wait doubled with no upper limit
NextWaitUncapped(w) == 2 * w

\* wait *= 2, limited to 10 seconds
NextWait(w) == IF 2 * w > MaxWaitMs THEN MaxWaitMs ELSE 2 * w

\* a loop that never takes the early return of the last attempt
retryNeverLast(i) == FALSE

\* if i == maxAttempts-1 { return err }
retryLast(i) == i = maxAttempts - 1

\* retryWithBackoff is not running
RetryOff ==
    /\ rpc = "off" /\ ri = 0 /\ rwait = 0 /\ rjit = 0 /\ rcalls = 0 /\ rsleeps = 0
    /\ rerr = NoError /\ rret = NoError /\ rctx = "nil"

\* entry of retryWithBackoff
RetryEntry ==
    /\ rpc = "top" /\ ri = 0 /\ rwait = InitialWaitMs /\ rjit = 0 /\ rcalls = 0
    /\ rsleeps = 0 /\ rerr = NoError /\ rret = NoError /\ rctx = "nil"

retryReturn(e) ==
    /\ rpc' = "returned"
    /\ rret' = e

\* top of the for loop: i < maxAttempts, then the look at ctx.Done()
retryTop ==
    /\ rpc = "top"
    /\ IF ri >= maxAttempts
       THEN retryReturn([kind |-> "RetryAttemptsExhausted", call |-> 0])
       ELSE IF rctx # "nil"
            THEN retryReturn([kind |-> rctx, call |-> 0])
            ELSE rpc' = "op" /\ rret' = rret
    /\ UNCHANGED <<ri, rwait, rjit, rcalls, rsleeps, rerr, rctx, pipeVars, aggVars, unitVars, uiVars>>

\* op() is called: nil is returned at once; an error is returned after the
\* last attempt and is otherwise followed by a sleep of wait + jitter
retryOp ==
    /\ rpc = "op"
    /\ rcalls' = rcalls + 1
    /\ \E out \in OpOutcomes :
          IF out = "nil"
          THEN /\ retryReturn(NoError)
               /\ UNCHANGED <<rerr, rjit, rsleeps>>
          ELSE /\ rerr' = [kind |-> out, call |-> rcalls + 1]
               /\ IF retryLast(ri)
                  THEN /\ retryReturn(rerr')
                       /\ UNCHANGED <<rjit, rsleeps>>
                  ELSE /\ rjit' \in 0..(JitterMs - 1)
                       /\ rsleeps' = rsleeps + 1
                       /\ rpc' = "sleep"
                       /\ rret' = rret
    /\ UNCHANGED <<ri, rwait, rctx, pipeVars, aggVars, unitVars, uiVars>>

\* time.Sleep returns: wait is doubled and limited, i++
retryWake ==
    /\ rpc = "sleep"
    /\ rwait' = NextWait(rwait)
    /\ ri' = ri + 1
    /\ rpc' = "top"
    /\ UNCHANGED <<rjit, rcalls, rsleeps, rerr, rret, rctx, pipeVars, aggVars, unitVars, uiVars>>

\* the context passed in becomes done while retryWithBackoff runs
retryCtxDone ==
    /\ rpc \in {"top", "op", "sleep"}
    /\ rctx = "nil"
    /\ rctx' \in {"Canceled", "DeadlineExceeded"}
    /\ UNCHANGED <<rpc, ri, rwait, rjit, rcalls, rsleeps, rerr, rret, pipeVars, aggVars, unitVars, uiVars>>

\* ------------------------------------------------------------------------
\* The jitter step before a fetch (part_000 line 130, main.go line 89):
\* time.Sleep(time.Duration(rand.Intn(*initialDelay)) * time.Millisecond)
\* ------------------------------------------------------------------------

\* largest -initial-delay value tried (1000 by default)
MaxDelay == 12

\* the step is not running
JitterOff == initialDelay = 0 /\ jpc = "off" /\ jsleep = 0

\* a worker arrives at the step with the flag's value
JitterEntry == initialDelay \in 0..MaxDelay /\ jpc = "start" /\ jsleep = 0

\* math/rand's Intn(n) "panics if n <= 0"
IntnPanics(n) == n <= 0

\* rand.Intn(*initialDelay): a number in [0, n), or the panic, which no
\* goroutine of the program recovers from
jitterDraw ==
    /\ jpc = "start"
    /\ IF IntnPanics(initialDelay)
       THEN jpc' = "panic" /\ jsleep' = jsleep
       ELSE jpc' = "sleeping" /\ jsleep' \in 0..(initialDelay - 1)
    /\ UNCHANGED <<initialDelay, pipeVars, aggVars, retryVars, fibVars, tokVars, uiVars>>

\* time.Sleep returns and the fetch is attempted
jitterWake ==
    /\ jpc = "sleeping"
    /\ jpc' = "fetch"
    /\ UNCHANGED <<initialDelay, jsleep, pipeVars, aggVars, retryVars, fibVars, tokVars, uiVars>>


\* ------------------------------------------------------------------------
\* fib.go: Fib, NewFib, Next. Go's int is 32 or 64 bits wide, by the build;
\* a value is kept as the three limbs <<a, b, c>> of its two's complement
\* bit pattern a * 2^44 + b * 2^22 + c, so that the sum wraps as Go's does
\* ------------------------------------------------------------------------

\* 2^22, the size of a limb
LimbBase == 4194304

\* sizes of the limbs of an int of w bits: 20 + 22 + 22 or 0 + 10 + 22 bits
LimbSizes(w) == IF w = 64 THEN <<1048576, LimbBase, LimbBase>>
                          ELSE <<1, 1024, LimbBase>>

\* the int of w bits whose value is n (n within the model checker's range)
GoInt(n, w) ==
    LET M == LimbSizes(w)
        m == IF n >= 0 THEN n ELSE -(n + 1)
        b == m \div LimbBase
        c == m % LimbBase
    IN  IF n >= 0 THEN <<0, b, c>>
                  ELSE <<M[1] - 1, M[2] - 1 - b, M[3] - 1 - c>>

\* v < 0: the sign bit of the pattern is set
IsNeg(v, w) == IF w = 64 THEN v[1] >= 524288 ELSE v[2] >= 512

\* x + y on ints of w bits: the carry out of the top limb is lost
Add(x, y, w) ==
    LET M  == LimbSizes(w)
        c  == x[3] + y[3]
        b  == x[2] + y[2] + c \div M[3]
        a  == x[1] + y[1] + b \div M[2]
    IN  <<a % M[1], b % M[2], c % M[3]>>

\* the value of a pattern that is not negative and below 2^31
Small(v) == v[1] = 0 /\ v[2] < 512
Val(v) == v[2] * LimbBase + v[3]

\* a check that looks at value1 only
fibInvalidFirstOnly(v1, v2, w) == IsNeg(v1, w)

\* if f.value1 < 0 || f.value2 < 0
fibInvalid(v1, v2, w) == IsNeg(v1, w) \/ IsNeg(v2, w)

\* an update that keeps value1
fibShiftKeepFirst(v1, v2, sum) == <<v1, sum>>

\* f.value1 = f.value2; f.value2 = next
fibShift(v1, v2, sum) == <<v2, sum>>

\* no Fib is in use
FibOff ==
    /\ intBits = 64 /\ value1 = <<0, 0, 0>> /\ value2 = <<0, 0, 0>>
    /\ fibRet = <<0, 0, 0>> /\ fibCalls = 0 /\ fibFresh = FALSE

\* NewFib(): value1: 0, value2: 1
NewFib ==
    /\ value1 = GoInt(0, intBits) /\ value2 = GoInt(1, intBits)
    /\ fibFresh = TRUE

\* the largest int32 value
MaxInt32 == 2147483647

\* values a test puts into a Fib literal
FibSamples == {-2147483647 - 1, -2, -1, 0, 1, 2, MaxInt32}

\* a Fib written as a literal: &Fib{value1: x, value2: y}
FibLiteral ==
    /\ \E x, y \in FibSamples :
          value1 = GoInt(x, intBits) /\ value2 = GoInt(y, intBits)
    /\ fibFresh = FALSE

\* a Next that stores the wrapped sum before it returns -1
fibKeepShifted(v1, v2, sum) == <<v2, sum>>

\* `return -1` before the two assignments: the fields stay as they are
fibKeep(v1, v2, sum) == <<v1, v2>>

\* calls of Next made on one Fib at most
MaxCalls == 95

\* Fib.Next: -1 for a negative field, -1 when the sum is negative (it has
\* wrapped), else the sum, which is stored
fibNext ==
    /\ fibCalls < MaxCalls
    /\ fibCalls' = fibCalls + 1
    /\ LET next == Add(value1, value2, intBits)
       IN  IF fibInvalid(value1, value2, intBits) \/ IsNeg(next, intBits)
           THEN /\ fibRet' = GoInt(-1, intBits)
                /\ value1' = fibKeep(value1, value2, next)[1]
                /\ value2' = fibKeep(value1, value2, next)[2]
           ELSE /\ fibRet' = next
                /\ value1' = fibShift(value1, value2, next)[1]
                /\ value2' = fibShift(value1, value2, next)[2]
    /\ UNCHANGED <<intBits, fibFresh, pipeVars, aggVars, retryVars, jitVars, tokVars, uiVars>>

\* ------------------------------------------------------------------------
\* gmailauth.go: saveToken and tokenFromFile. A string is the sequence of
\* its characters; of oauth2.Token the fields AccessToken and RefreshToken
\* are carried
\* ------------------------------------------------------------------------

\* longest AccessToken / RefreshToken tried
MaxTokLen == 2

\* characters of a token string: a letter, the quote and the backslash
TokChars == {"a", "\"", "\\"}

TokStrings == UNION { [1..n -> TokChars] : n \in 0..MaxTokLen }

Tokens == [AccessToken : TokStrings, RefreshToken : TokStrings]

\* &oauth2.Token{}
EmptyToken == [AccessToken |-> <<>>, RefreshToken |-> <<>>]

\* the JSON names of the two fields (oauth2.Token's struct tags)
AccessKey  == <<"a", "c", "c", "e", "s", "s", "_", "t", "o", "k", "e", "n">>
RefreshKey == <<"r", "e", "f", "r", "e", "s", "h", "_", "t", "o", "k", "e", "n">>

RECURSIVE Esc(_)
\* encoding/json writes " as \" and \ as \\ inside a string
Esc(s) ==
    IF s = <<>> THEN <<>>
    ELSE (IF Head(s) \in {"\"", "\\"} THEN <<"\\", Head(s)>> ELSE <<Head(s)>>)
            \o Esc(Tail(s))

Quoted(s) == <<"\"">> \o Esc(s) \o <<"\"">>

\* json.NewEncoder(f).Encode(token): the object with access_token and,
\* unless it is empty (omitempty), refresh_token, then a newline
Encode(t) ==
    <<"{">> \o Quoted(AccessKey) \o <<":">> \o Quoted(t.AccessToken)
        \o (IF t.RefreshToken = <<>> THEN <<>>
            ELSE <<",">> \o Quoted(RefreshKey) \o <<":">> \o Quoted(t.RefreshToken))
        \o <<"}", "\n">>

\* a syntax error, or the end of the file inside the value
DecodeError == [err |-> "SyntaxError", tok |-> EmptyToken]

RECURSIVE ScanString(_, _, _)
\* the rest of a string literal of f from position j on; acc holds the
\* characters read so far
ScanString(f, j, acc) ==
    IF j > Len(f) THEN [ok |-> FALSE, val |-> <<>>, next |-> j]
    ELSE IF f[j] = "\"" THEN [ok |-> TRUE, val |-> acc, next |-> j + 1]
    ELSE IF f[j] = "\\"
         THEN IF j + 1 <= Len(f) /\ f[j + 1] \in {"\"", "\\"}
              THEN ScanString(f, j + 2, Append(acc, f[j + 1]))
              ELSE [ok |-> FALSE, val |-> <<>>, next |-> j]
    ELSE ScanString(f, j + 1, Append(acc, f[j]))

\* a string literal of f that starts at position i
ParseString(f, i) ==
    IF i <= Len(f) /\ f[i] = "\"" THEN ScanString(f, i + 1, <<>>)
    ELSE [ok |-> FALSE, val |-> <<>>, next |-> i]

RECURSIVE ParseMembers(_, _, _)
\* the members "name":"value" of an object of f from position i on, put
\* into the fields of t they name; other names are ignored
ParseMembers(f, i, t) ==
    LET k == ParseString(f, i)
        v == ParseString(f, k.next + 1)
        t2 == IF k.val = AccessKey THEN [t EXCEPT !.AccessToken = v.val]
              ELSE IF k.val = RefreshKey THEN [t EXCEPT !.RefreshToken = v.val]
              ELSE t
    IN  IF ~k.ok \/ k.next > Len(f) \/ f[k.next] # ":" THEN DecodeError
        ELSE IF ~v.ok \/ v.next > Len(f) THEN DecodeError
        ELSE IF f[v.next] = "," THEN ParseMembers(f, v.next + 1, t2)
        ELSE IF f[v.next] = "}" THEN [err |-> "nil", tok |-> t2]
        ELSE DecodeError

\* json.NewDecoder(f).Decode(tok) on a file that is to hold an object
Decode(f) ==
    IF f = <<>> \/ f[1] # "{" THEN DecodeError
    ELSE IF Len(f) >= 2 /\ f[2] = "}" THEN [err |-> "nil", tok |-> EmptyToken]
    ELSE ParseMembers(f, 2, EmptyToken)

\* the file of TestTokenFromFileInvalidJSON
NotJson == <<"n", "o", "t", "-", "j", "s", "o", "n">>

\* files that are no JSON value: the test's, an empty one, a cut-off object
BadFiles == {NotJson, <<>>, <<"{">>, <<"{", "\"", "a">>, <<"{", "\"", "a", "\"", ":">>}

TokenOff ==
    /\ tok = EmptyToken /\ tokFile = "absent" /\ tokPc = "off"
    /\ loaded = [err |-> "nil", tok |-> EmptyToken]

\* saveToken(path, token): OpenFile with O_CREATE|O_TRUNC, log.Fatalf when
\* it fails; Encode, and only a logged warning when the write fails, with
\* whatever part was written left in the file
saveToken ==
    /\ tokPc = "save"
    /\ \/ tokPc' = "fatal" /\ tokFile' = tokFile
       \/ tokPc' = "saved" /\ tokFile' = Encode(tok)
       \/ /\ tokPc' = "saved"
          /\ \E n \in 0..(Len(Encode(tok)) - 1) : tokFile' = SubSeq(Encode(tok), 1, n)
    /\ UNCHANGED <<tok, loaded, pipeVars, aggVars, retryVars, jitVars, fibVars, uiVars>>

\* tokenFromFile(file): os.Open, then Decode; either error is returned
tokenFromFile ==
    /\ tokPc \in {"saved", "file"}
    /\ tokPc' = IF tokPc = "saved" THEN "reloaded" ELSE "read"
    /\ loaded' = IF tokFile = "absent"
                 THEN [err |-> "NotExist", tok |-> EmptyToken]
                 ELSE Decode(tokFile)
    /\ UNCHANGED <<tok, tokFile, pipeVars, aggVars, retryVars, jitVars, fibVars, uiVars>>

\* no unit outside the pipeline is running

\* ------------------------------------------------------------------------
\* printSpamSummary of part_000 and main.go. A string is the sequence of its
\* characters; the keys hold digits and "-" only
\* ------------------------------------------------------------------------

\* the characters of a key, in the order of their bytes
Alphabet == <<"-", "0", "1", "2", "3", "4", "5", "6", "7", "8", "9">>

Ord(c) == CHOOSE k \in 1..Len(Alphabet) : Alphabet[k] = c

IsDigit(c) == c # "-"

\* the digit a character stands for
DigitValue(c) == Ord(c) - 2

RECURSIVE StrLess(_, _)
\* Go's a < b on strings: byte by byte, a proper prefix is smaller
StrLess(a, b) ==
    IF b = <<>> THEN FALSE
    ELSE IF a = <<>> THEN TRUE
    ELSE IF Head(a) = Head(b) THEN StrLess(Tail(a), Tail(b))
    ELSE Ord(Head(a)) < Ord(Head(b))

RECURSIVE SortStrings(_)
\* sort.Strings on the keys collected from the map, whatever order the map
\* gave them in
SortStrings(S) ==
    IF S = {} THEN <<>>
    ELSE LET m == CHOOSE x \in S : \A y \in S \ {x} : StrLess(x, y)
         IN  <<m>> \o SortStrings(S \ {m})

IsLeap(y) == y % 4 = 0 /\ (y % 100 # 0 \/ y % 400 = 0)

\* daysIn(month, year) of package time
DaysIn(m, y) ==
    IF m = 2 THEN (IF IsLeap(y) THEN 29 ELSE 28)
    ELSE IF m \in {4, 6, 9, 11} THEN 30 ELSE 31

\* day number, counted from 1970-01-01, of a proleptic Gregorian date
DaysFromCivil(y, m, d) ==
    LET yy  == IF m <= 2 THEN y - 1 ELSE y
        era == yy \div 400
        yoe == yy - era * 400
        mp  == IF m > 2 THEN m - 3 ELSE m + 9
        doy == (153 * mp + 2) \div 5 + d - 1
        doe == yoe * 365 + yoe \div 4 - yoe \div 100 + doy
    IN  era * 146097 + doe - 719468

ParseError == [ok |-> FALSE, days |-> 0]

\* time.Parse("2006-01-02", s): four digits, "-", two digits of a month,
\* "-", two digits of a day of that month, and nothing after them
ParseDate(s) ==
    IF Len(s) < 4 \/ \E k \in 1..4 : ~IsDigit(s[k]) THEN ParseError
    ELSE IF Len(s) < 5 \/ s[5] # "-" THEN ParseError
    ELSE IF Len(s) < 7 \/ ~IsDigit(s[6]) \/ ~IsDigit(s[7]) THEN ParseError
    ELSE IF Len(s) < 8 \/ s[8] # "-" THEN ParseError
    ELSE IF Len(s) < 10 \/ ~IsDigit(s[9]) \/ ~IsDigit(s[10]) THEN ParseError
    ELSE IF Len(s) > 10 THEN ParseError
    ELSE LET y == 1000 * DigitValue(s[1]) + 100 * DigitValue(s[2])
                  + 10 * DigitValue(s[3]) + DigitValue(s[4])
             m == 10 * DigitValue(s[6]) + DigitValue(s[7])
             d == 10 * DigitValue(s[9]) + DigitValue(s[10])
         IN  IF m < 1 \/ m > 12 \/ d < 1 \/ d > DaysIn(m, y) THEN ParseError
             ELSE [ok |-> TRUE, days |-> DaysFromCivil(y, m, d)]

\* dateValue.Format("Mon"); 1970-01-01 was a Thursday
DayOfWeek(days) == <<"Thu", "Fri", "Sat", "Sun", "Mon", "Tue", "Wed">>[(days % 7) + 1]

\* fmt.Println()
BlankLine == [kind |-> "blank"]

\* fmt.Printf("%s %s %d\n", dayOfWeek, date, count)
DateLine(dow, date, count) == [kind |-> "date", dow |-> dow, date |-> date, count |-> count]

\* fmt.Printf("Total: %d\n", total)
TotalLine(n) == [kind |-> "total", count |-> n]

PrintOff ==
    /\ spamCounts = <<>> /\ cutoffDate = <<>> /\ dates = <<>> /\ di = 0
    /\ outputState = "FirstLine" /\ ptotal = 0 /\ stdout = <<>> /\ ppc = "off"

\* the keys are collected and sorted; total := 0; outputState := FirstLine
printStart ==
    /\ ppc = "call"
    /\ dates' = SortStrings(DOMAIN spamCounts)
    /\ di' = 1
    /\ ptotal' = 0
    /\ outputState' = "FirstLine"
    /\ ppc' = "loop"
    /\ UNCHANGED <<spamCounts, cutoffDate, stdout, authVars, pipeVars, aggVars,
                   retryVars, unitVars>>

\* one pass of `for _, date := range dates`: the state is set from the
\* comparison with cutoffDate, the blank line is printed on the way from
\* BeforeDate to OnOrAfterDate, the count is added, and the line is printed
\* unless the key does not parse (`continue`)
printDate ==
    /\ ppc = "loop" /\ di <= Len(dates)
    /\ LET date   == dates[di]
           before == StrLess(date, cutoffDate)
           blank  == ~before /\ outputState = "BeforeDate"
           count  == spamCounts[date]
           parsed == ParseDate(date)
       IN  /\ outputState' = IF before THEN "BeforeDate" ELSE "OnOrAfterDate"
           /\ ptotal' = ptotal + count
           /\ stdout' = stdout \o (IF blank THEN <<BlankLine>> ELSE <<>>)
                         \o (IF parsed.ok
                             THEN <<DateLine(DayOfWeek(parsed.days), date, count)>>
                             ELSE <<>>)
    /\ di' = di + 1
    /\ UNCHANGED <<spamCounts, cutoffDate, dates, ppc, authVars, pipeVars, aggVars,
                   retryVars, unitVars>>

\* after the loop: fmt.Printf("Total: %d\n", total)
printTotal ==
    /\ ppc = "loop" /\ di > Len(dates)
    /\ stdout' = Append(stdout, TotalLine(ptotal))
    /\ ppc' = "done"
    /\ UNCHANGED <<spamCounts, cutoffDate, dates, di, outputState, ptotal, authVars,
                   pipeVars, aggVars, retryVars, unitVars>>

\* ------------------------------------------------------------------------
\* getTokenFromWeb of gmailauth.go: the callback handler, the goroutine that
\* reads standard input, and the select that waits for the code
\* ------------------------------------------------------------------------

\* requests the handler answers in one run
MaxRequests == 3

\* randomState(16), or "state-token" when it failed
States == {"s1", "s2", "state-token"}

\* r.URL.Query().Get(...) gives "" for a parameter that is missing
Paths == {"/", "/callback"}
QueryStates == States \cup {""}
Codes == {"", "c1", "c2"}
Requests == [path : Paths, state : QueryStates, code : Codes]

NoRequest == [path |-> "", state |-> "", code |-> ""]
NoCode == [code |-> "", from |-> "none"]

\* a handler that takes any state parameter
StateMatchesAny(r) == TRUE

\* `r.URL.Query().Get("state") != state` is false
StateMatches(r) == r.state = state

\* select { case authCodeChan <- c: default: } on the channel of capacity 1
TrySend(c, from) ==
    IF Len(authCodeChan) < 1 THEN Append(authCodeChan, [code |-> c, from |-> from])
                             ELSE authCodeChan

AuthOff ==
    /\ state = "" /\ authCodeChan = <<>> /\ authCode = NoCode /\ authPc = "off"
    /\ request = NoRequest /\ served = 0 /\ status = 0 /\ stdinRead = FALSE

\* the state getTokenFromWeb is in when it has started the server and the
\* goroutine reading standard input, and is about to wait
AuthEntry ==
    /\ state \in States /\ authCodeChan = <<>> /\ authCode = NoCode
    /\ authPc = "waiting"
    /\ request = NoRequest /\ served = 0 /\ status = 0 /\ stdinRead = FALSE

\* the server is serving: from srv.Serve(ln) to srv.Shutdown
Serving == authPc \in {"waiting", "received"}

\* the function registered with mux.HandleFunc("/", ...), for one request
authHandler(r) ==
    /\ Serving /\ served < MaxRequests
    /\ request' = r
    /\ served' = served + 1
    /\ IF r.path # "/"
       THEN status' = 404 /\ authCodeChan' = authCodeChan
       ELSE IF ~StateMatches(r)
       THEN status' = 400 /\ authCodeChan' = authCodeChan
       ELSE /\ status' = 200
            /\ authCodeChan' = IF r.code # "" THEN TrySend(r.code, "handler")
                                             ELSE authCodeChan
    /\ UNCHANGED <<state, authCode, authPc, stdinRead, printVars, pipeVars, aggVars,
                   retryVars, unitVars>>

\* the goroutine reading one line of standard input
authStdin ==
    /\ authPc \in {"waiting", "received", "shutdown"} /\ ~stdinRead
    /\ stdinRead' = TRUE
    /\ \E input \in Codes :
          authCodeChan' = IF input # "" THEN TrySend(input, "stdin") ELSE authCodeChan
    /\ UNCHANGED <<state, authCode, authPc, request, served, status, printVars,
                   pipeVars, aggVars, retryVars, unitVars>>

\* select: case authCode = <-authCodeChan
authReceive ==
    /\ authPc = "waiting" /\ authCodeChan # <<>>
    /\ authCode' = Head(authCodeChan)
    /\ authCodeChan' = Tail(authCodeChan)
    /\ authPc' = "received"
    /\ UNCHANGED <<state, request, served, status, stdinRead, printVars, pipeVars,
                   aggVars, retryVars, unitVars>>

\* select: case <-time.After(5 * time.Minute): log.Fatal
authTimeout ==
    /\ authPc = "waiting"
    /\ authPc' = "fatal"
    /\ UNCHANGED <<state, authCodeChan, authCode, request, served, status, stdinRead,
                   printVars, pipeVars, aggVars, retryVars, unitVars>>

\* srv.Shutdown(shutdownCtx): no request is answered from here on
authShutdown ==
    /\ authPc = "received"
    /\ authPc' = "shutdown"
    /\ UNCHANGED <<state, authCodeChan, authCode, request, served, status, stdinRead,
                   printVars, pipeVars, aggVars, retryVars, unitVars>>

UiOff == PrintOff /\ AuthOff

UnitsOff == JitterOff /\ FibOff /\ TokenOff /\ UiOff

\* ------------------------------------------------------------------------
\* The remote message source and the run's environment
\* ------------------------------------------------------------------------

Ids == 1..MaxIds

Jan2Noon2024 == Ms(1704196800, 0)
Jan3Noon2024 == Ms(1704283200, 0)
EpochZero    == Ms(0, 0)

\* the internalDate the remote stores for an identifier: the first on
\* 2024-01-02, the next two on 2024-01-03, any further one without a date
RemoteDate(i) ==
    IF i = 1 THEN Jan2Noon2024 ELSE IF i <= 3 THEN Jan3Noon2024 ELSE EpochZero

\* Users.Messages.Get(id).Format("minimal").Do() when it succeeds
Fetched(i) == Message(i, RemoteDate(i))

Running == {"idle", "call", "fetched", "locked"}

\* identifiers whose fetch has been handed on and has not ended
InFlight == { i \in Ids : st[i] \in Running }

\* the last page carried no token and all its identifiers are handed on
ListingFinished ==
    /\ pageNo > 0 /\ ~hasNext /\ total = pageEnd
    /\ lpc \notin {"acquire", "failed", "stopped"}

\* listing has finished and every fetch handed on has ended
WorkComplete ==
    /\ ListingFinished
    /\ \A i \in Ids : st[i] \notin Running \cup {"queued"}

\* a -timeout timer that never fires
DeadlineNever == FALSE /\ UNCHANGED vars

\* the timer of -timeout elapses. part_000: the context made by
\* context.WithTimeout becomes done with DeadlineExceeded, unless it is done
\* already. main.go: the channel of time.After becomes ready. part_001 and
\* part_004: time.After is called only after the listing loop.
Deadline ==
    /\ pc = "running"
    /\ ~deadline
    /\ variant = "semaphore" => ctxErr = "nil"
    /\ variant = "legacy" => lpc \in {"collect", "collect2"}
    /\ deadline' = TRUE
    /\ early' = ~WorkComplete
    /\ ctxErr' = IF variant = "semaphore" THEN "DeadlineExceeded" ELSE ctxErr
    /\ UNCHANGED <<variant, nworkers, extCancel, pc, ret, messages, listVars,
                   taskVars, chanVars, aggVars, retryVars, unitVars, uiVars>>

\* the caller cancels the context it passed in; every derived context is
\* done from then on, with the first error it was given
ExternalCancel ==
    /\ pc = "running"
    /\ variant \in GoVariants
    /\ ~extCancel
    /\ extCancel' = TRUE
    /\ ctxErr' = IF ctxErr = "nil" THEN "Canceled" ELSE ctxErr
    /\ UNCHANGED <<variant, nworkers, deadline, early, pc, ret, messages, listVars,
                   taskVars, chanVars, aggVars, retryVars, unitVars, uiVars>>

\* the NextPageToken the remote puts into its n-th response when more pages
\* follow: a value of its own for every page, never the empty string
PageTokenOf(n) == n

\* `if pageToken != "" { req = req.PageToken(pageToken) }`
RequestToken == pageToken

\* a list call that succeeds returns k identifiers and maybe a token; the
\* request carried the loop's page token
ListPage(k, more) ==
    /\ k \in 0..(MaxIds - pageEnd)
    /\ more \in BOOLEAN
    /\ pageNo + 1 = MaxPages => ~more
    /\ pageNo' = pageNo + 1
    /\ pageEnd' = pageEnd + k
    /\ hasNext' = more
    /\ reqToken' = RequestToken
    /\ respToken' = IF more THEN PageTokenOf(pageNo + 1) ELSE 0
    /\ pageToken' = pageToken

\* a loop that never stores the token of the page it received
TakeTokenNever == pageToken' = pageToken /\ UNCHANGED <<reqToken, respToken>>

\* `pageToken = listResp.NextPageToken`
TakeToken == pageToken' = respToken /\ UNCHANGED <<reqToken, respToken>>

\* `defer cancel()`: the derived context is done once the function returns
CancelOnReturn == IF ctxErr = "nil" THEN "Canceled" ELSE ctxErr

\* ------------------------------------------------------------------------
\* listSpamMessages of part_000: errgroup and the token channel sem
\* ------------------------------------------------------------------------

\* retryWithBackoff gives up after this attempt (i == maxAttempts-1)
LastAttempt(i) == i = AttemptBound - 1

\* a send on sem that never blocks
semUnbounded == TRUE

\* `sem <- struct{}{}` can proceed
semFree == sem < nworkers

\* the error retryWithBackoff's caller returns for a failed list call
semReturn(val, e, how) ==
    /\ pc' = "returned"
    /\ ret' = [val |-> val, err |-> e]
    /\ lpc' = how
    /\ ctxErr' = CancelOnReturn

\* one attempt of retryWithBackoff around req.Do(): the context is checked,
\* then the call succeeds (the page is kept), or fails and is retried after
\* the sleep, or fails for the last time and ends the run
semList ==
    /\ variant = "semaphore" /\ pc = "running" /\ lpc = "list"
    /\ \/ /\ ctxErr # "nil"
          /\ semReturn(<<>>, ctxErr, "stopped")
          /\ UNCHANGED <<listTry, pageNo, total, pageEnd, hasNext, tokenVars>>
       \/ /\ ctxErr = "nil"
          /\ \E k \in 0..MaxIds, more \in BOOLEAN : ListPage(k, more)
          /\ lpc' = "dispatch"
          /\ listTry' = 0
          /\ UNCHANGED <<total, pc, ret, ctxErr>>
       \/ /\ ctxErr = "nil"
          /\ ~LastAttempt(listTry)
          /\ listTry' = listTry + 1
          /\ UNCHANGED <<lpc, pageNo, total, pageEnd, hasNext, tokenVars, pc, ret, ctxErr>>
       \/ /\ ctxErr = "nil"
          /\ LastAttempt(listTry)
          /\ semReturn(<<>>, "ListFailed", "failed")
          /\ UNCHANGED <<listTry, pageNo, total, pageEnd, hasNext, tokenVars>>
    /\ UNCHANGED <<variant, nworkers, deadline, extCancel, early, messages,
                   taskVars, chanVars, aggVars, retryVars, unitVars, uiVars>>

\* the range loop takes the next identifier of the page: total++
semDispatch ==
    /\ variant = "semaphore" /\ pc = "running" /\ lpc = "dispatch"
    /\ total < pageEnd
    /\ total' = total + 1
    /\ lpc' = "acquire"
    /\ UNCHANGED <<variant, nworkers, envVars, pc, ret, messages, listTry, pageNo,
                   pageEnd, hasNext, tokenVars, taskVars, chanVars, aggVars, retryVars, unitVars, uiVars>>

\* `sem <- struct{}{}` then eg.Go: blocks while every token is held
semAcquire ==
    /\ variant = "semaphore" /\ pc = "running" /\ lpc = "acquire"
    /\ semFree
    /\ sem' = sem + 1
    /\ st' = [st EXCEPT ![total] = "idle"]
    /\ try' = [try EXCEPT ![total] = 0]
    /\ lpc' = "dispatch"
    /\ UNCHANGED <<variant, nworkers, envVars, pc, ret, messages, listTry, pageNo,
                   total, pageEnd, hasNext, tokenVars, mu, chanVars, aggVars, retryVars, unitVars, uiVars>>

\* a listing loop that goes on to the next page before the range loop
\* over the page has ended
semNextPageEarly ==
    /\ variant = "semaphore" /\ pc = "running" /\ lpc = "dispatch"
    /\ lpc' = IF hasNext THEN "list" ELSE "wait"
    /\ TakeToken
    /\ UNCHANGED <<variant, nworkers, envVars, pc, ret, messages, listTry, pageNo,
                   total, pageEnd, hasNext, taskVars, chanVars, aggVars, retryVars, unitVars, uiVars>>

\* the page is used up: pageToken = listResp.NextPageToken; break if empty
semNextPage ==
    /\ variant = "semaphore" /\ pc = "running" /\ lpc = "dispatch"
    /\ total = pageEnd
    /\ lpc' = IF hasNext THEN "list" ELSE "wait"
    /\ TakeToken
    /\ UNCHANGED <<variant, nworkers, envVars, pc, ret, messages, listTry, pageNo,
                   total, pageEnd, hasNext, taskVars, chanVars, aggVars, retryVars, unitVars, uiVars>>

\* what a task whose fetch was given up returns to the errgroup, had it
\* returned the error instead
taskErrorFatal(i) == "FetchFailed"

\* what a task whose fetch was given up returns to the errgroup:
\* `return nil // non-fatal; continue with other messages`
taskError(i) == "nil"

\* eg.Wait(): the first non-nil error a goroutine of the group returned
egWait ==
    IF \E i \in Ids : st[i] = "dropped" /\ taskError(i) # "nil"
    THEN taskError(CHOOSE i \in Ids : st[i] = "dropped" /\ taskError(i) # "nil")
    ELSE "nil"

\* eg.Wait() returns once every goroutine of the group has returned:
\* `if err := eg.Wait(); err != nil { return nil, err }; return messages, nil`
semWait ==
    /\ variant = "semaphore" /\ pc = "running" /\ lpc = "wait"
    /\ InFlight = {}
    /\ IF egWait # "nil" THEN semReturn(<<>>, egWait, "done")
                         ELSE semReturn(messages, "nil", "done")
    /\ UNCHANGED <<variant, nworkers, deadline, extCancel, early, messages, listTry,
                   pageNo, total, pageEnd, hasNext, tokenVars, taskVars, chanVars, aggVars, retryVars, unitVars, uiVars>>

\* a task starts an attempt: retryWithBackoff and the operation look at the
\* context; when it is done the task returns nil and gives its token back
semTaskAttempt(i) ==
    /\ variant = "semaphore" /\ st[i] = "idle"
    /\ IF ctxErr # "nil"
       THEN /\ st' = [st EXCEPT ![i] = "aborted"]
            /\ sem' = sem - 1
       ELSE /\ st' = [st EXCEPT ![i] = "call"]
            /\ sem' = sem
    /\ UNCHANGED <<variant, nworkers, envVars, pc, ret, messages, listVars, try, mu,
                   chanVars, aggVars, retryVars, unitVars, uiVars>>

\* a task that appends the message and goes on to another attempt
semTaskKeepAndRetry(i) ==
    /\ messages' = Append(messages, Fetched(i))
    /\ st' = [st EXCEPT ![i] = "idle"]
    /\ sem' = sem
    /\ try' = try

\* an append without mu that loses what the other tasks appended
semTaskKeepUnlocked(i) ==
    /\ messages' = <<Fetched(i)>>
    /\ st' = [st EXCEPT ![i] = "ok"]
    /\ sem' = sem - 1
    /\ try' = try

\* a task that returns without `defer func() { <-sem }()`
semTaskKeepHoldToken(i) ==
    /\ messages' = Append(messages, Fetched(i))
    /\ st' = [st EXCEPT ![i] = "ok"]
    /\ sem' = sem
    /\ try' = try

\* what a task does with a message it has fetched: append under mu, return
semTaskKeep(i) ==
    /\ messages' = Append(messages, Fetched(i))
    /\ st' = [st EXCEPT ![i] = "ok"]
    /\ sem' = sem - 1
    /\ try' = try

\* mu.Lock() that does not wait for the holder
muFreeAlways == TRUE

\* mu.Lock() can proceed
muFree == mu = 0

\* the get call of an attempt returns: with the message, and the task takes
\* mu once it is free (mu.Lock()); or the attempt failed and is retried after
\* the sleep, or it was the last
semTaskResult(i) ==
    /\ variant = "semaphore" /\ st[i] = "call"
    /\ \/ /\ muFree
          /\ mu' = i
          /\ st' = [st EXCEPT ![i] = "locked"]
          /\ UNCHANGED <<messages, sem, try>>
       \/ /\ ~LastAttempt(try[i])
          /\ try' = [try EXCEPT ![i] = @ + 1]
          /\ st' = [st EXCEPT ![i] = "idle"]
          /\ UNCHANGED <<messages, sem, mu>>
       \/ /\ LastAttempt(try[i])
          /\ st' = [st EXCEPT ![i] = "dropped"]
          /\ sem' = sem - 1
          /\ UNCHANGED <<messages, try, mu>>
    /\ UNCHANGED <<variant, nworkers, envVars, pc, ret, listVars, chanVars, aggVars, retryVars, unitVars, uiVars>>

\* messages = append(messages, fullMsg); mu.Unlock(); return nil
semTaskAppend(i) ==
    /\ variant = "semaphore" /\ st[i] = "locked"
    /\ semTaskKeep(i)
    /\ mu' = 0
    /\ UNCHANGED <<variant, nworkers, envVars, pc, ret, listVars, chanVars, aggVars, retryVars, unitVars, uiVars>>

NextSemaphore ==
    \/ semList \/ semDispatch \/ semAcquire \/ semNextPage \/ semWait
    \/ \E i \in Ids : semTaskAttempt(i)
    \/ \E i \in Ids : semTaskResult(i)
    \/ \E i \in Ids : semTaskAppend(i)

\* ------------------------------------------------------------------------
\* listSpamMessages of main.go: worker goroutines, jobChan and msgChan
\* ------------------------------------------------------------------------

cfgVars == <<variant, nworkers>>

Workers == 1..nworkers

\* a buffered channel accepts a send
HasRoom(ch) == Len(ch) < ChanCap

\* a lister that returns and leaves jobChan open
poolListerExitOpen(how) ==
    /\ lpc' = how
    /\ jobClosed' = jobClosed

\* the lister goroutine returns: `defer close(jobChan)`
poolListerExit(how) ==
    /\ lpc' = how
    /\ jobClosed' = TRUE

\* top of the lister's loop: the non-blocking look at workerCtx.Done()
poolListerTop ==
    /\ variant = "pool" /\ lpc = "top"
    /\ IF ctxErr # "nil" THEN poolListerExit("stopped")
                         ELSE lpc' = "call" /\ jobClosed' = jobClosed
    /\ UNCHANGED <<cfgVars, envVars, pc, ret, messages, listTry, pageNo, total,
                   pageEnd, hasNext, tokenVars, taskVars, jobChan, msgChan, msgClosed, wk, aggVars, retryVars, unitVars, uiVars>>

\* backoff.Retry calls req.Do() without looking at the context first. The
\* call succeeds; or it fails and Retry returns the context's error, or
\* gives up (its elapsed-time limit), or goes to wait for the next attempt
poolListerCall ==
    /\ variant = "pool" /\ lpc = "call"
    /\ \/ /\ \E k \in 0..MaxIds, more \in BOOLEAN : ListPage(k, more)
          /\ lpc' = "send"
          /\ jobClosed' = jobClosed
       \/ /\ ctxErr # "nil"
          /\ poolListerExit("stopped")
          /\ UNCHANGED <<pageNo, pageEnd, hasNext, tokenVars>>
       \/ /\ ctxErr = "nil"
          /\ poolListerExit("failed")
          /\ UNCHANGED <<pageNo, pageEnd, hasNext, tokenVars>>
       \/ /\ ctxErr = "nil"
          /\ lpc' = "idle"
          /\ UNCHANGED <<jobClosed, pageNo, pageEnd, hasNext, tokenVars>>
    /\ UNCHANGED <<cfgVars, envVars, pc, ret, messages, listTry, total,
                   taskVars, jobChan, msgChan, msgClosed, wk, aggVars, retryVars, unitVars, uiVars>>

\* Retry between two attempts: the timer fires, or the context is done
poolListerWait ==
    /\ variant = "pool" /\ lpc = "idle"
    /\ \/ lpc' = "call" /\ jobClosed' = jobClosed
       \/ ctxErr # "nil" /\ poolListerExit("stopped")
    /\ UNCHANGED <<cfgVars, envVars, pc, ret, messages, listTry, pageNo, total,
                   pageEnd, hasNext, tokenVars, taskVars, jobChan, msgChan, msgClosed, wk, aggVars, retryVars, unitVars, uiVars>>

\* select { case jobChan <- msg.Id: total++ ; case <-workerCtx.Done(): return }
poolListerSend ==
    /\ variant = "pool" /\ lpc = "send"
    /\ total < pageEnd
    /\ \/ /\ HasRoom(jobChan)
          /\ jobChan' = Append(jobChan, total + 1)
          /\ total' = total + 1
          /\ st' = [st EXCEPT ![total + 1] = "queued"]
          /\ UNCHANGED <<lpc, jobClosed>>
       \/ /\ ctxErr # "nil"
          /\ poolListerExit("stopped")
          /\ UNCHANGED <<jobChan, total, st>>
    /\ UNCHANGED <<cfgVars, envVars, pc, ret, messages, listTry, pageNo,
                   pageEnd, hasNext, tokenVars, try, sem, mu, msgChan, msgClosed, wk, aggVars, retryVars, unitVars, uiVars>>

\* the page is used up: pageToken = r.NextPageToken; break if empty
poolListerNext ==
    /\ variant = "pool" /\ lpc = "send"
    /\ total = pageEnd
    /\ IF hasNext THEN lpc' = "top" /\ jobClosed' = jobClosed
                  ELSE poolListerExit("done")
    /\ TakeToken
    /\ UNCHANGED <<cfgVars, envVars, pc, ret, messages, listTry, pageNo, total,
                   pageEnd, hasNext, taskVars, jobChan, msgChan, msgClosed, wk, aggVars, retryVars, unitVars, uiVars>>

\* the worker is back at `for messageId := range jobChan`
Recv(w) == [wk EXCEPT ![w] = [pc |-> "recv", job |-> 0]]

\* range jobChan: the next identifier, or the end once the channel is
\* closed and empty (`defer wg.Done()`)
poolWorkerRecv(w) ==
    /\ variant = "pool" /\ wk[w].pc = "recv"
    /\ \/ /\ jobChan # <<>>
          /\ jobChan' = Tail(jobChan)
          /\ wk' = [wk EXCEPT ![w] = [pc |-> "busy", job |-> Head(jobChan)]]
          /\ st' = [st EXCEPT ![Head(jobChan)] = "call"]
       \/ /\ jobChan = <<>> /\ jobClosed
          /\ wk' = [wk EXCEPT ![w] = [pc |-> "exit", job |-> 0]]
          /\ UNCHANGED <<jobChan, st>>
    /\ UNCHANGED <<cfgVars, envVars, pc, ret, messages, listVars, try, sem, mu,
                   msgChan, jobClosed, msgClosed, aggVars, retryVars, unitVars, uiVars>>

\* backoff.Retry calls Get(...).Do(): success, or failure followed by the
\* context's error, by giving up, or by the wait for the next attempt; on
\* an error the worker logs and takes the next identifier
poolWorkerCall(w) ==
    /\ variant = "pool" /\ wk[w].pc = "busy" /\ st[wk[w].job] = "call"
    /\ \/ /\ st' = [st EXCEPT ![wk[w].job] = "fetched"]
          /\ wk' = wk
       \/ /\ ctxErr # "nil"
          /\ st' = [st EXCEPT ![wk[w].job] = "aborted"]
          /\ wk' = Recv(w)
       \/ /\ ctxErr = "nil"
          /\ st' = [st EXCEPT ![wk[w].job] = "dropped"]
          /\ wk' = Recv(w)
       \/ /\ ctxErr = "nil"
          /\ st' = [st EXCEPT ![wk[w].job] = "idle"]
          /\ wk' = wk
    /\ UNCHANGED <<cfgVars, envVars, pc, ret, messages, listVars, try, sem, mu,
                   jobChan, msgChan, jobClosed, msgClosed, aggVars, retryVars, unitVars, uiVars>>

\* Retry between two attempts: the timer fires, or the context is done
poolWorkerWait(w) ==
    /\ variant = "pool" /\ wk[w].pc = "busy" /\ st[wk[w].job] = "idle"
    /\ \/ /\ st' = [st EXCEPT ![wk[w].job] = "call"]
          /\ wk' = wk
       \/ /\ ctxErr # "nil"
          /\ st' = [st EXCEPT ![wk[w].job] = "aborted"]
          /\ wk' = Recv(w)
    /\ UNCHANGED <<cfgVars, envVars, pc, ret, messages, listVars, try, sem, mu,
                   jobChan, msgChan, jobClosed, msgClosed, aggVars, retryVars, unitVars, uiVars>>

\* select { case msgChan <- fullMsg: ; case <-workerCtx.Done(): return }
poolWorkerEmit(w) ==
    /\ variant = "pool" /\ wk[w].pc = "busy" /\ st[wk[w].job] = "fetched"
    /\ \/ /\ HasRoom(msgChan)
          /\ msgChan' = Append(msgChan, Fetched(wk[w].job))
          /\ st' = [st EXCEPT ![wk[w].job] = "ok"]
          /\ wk' = Recv(w)
       \/ /\ ctxErr # "nil"
          /\ st' = [st EXCEPT ![wk[w].job] = "aborted"]
          /\ wk' = [wk EXCEPT ![w] = [pc |-> "exit", job |-> 0]]
          /\ msgChan' = msgChan
    /\ UNCHANGED <<cfgVars, envVars, pc, ret, messages, listVars, try, sem, mu,
                   jobChan, jobClosed, msgClosed, aggVars, retryVars, unitVars, uiVars>>

\* a closer that does not wait for the workers
wgWaitNever == TRUE

\* wg.Wait() returns: every worker has run its `defer wg.Done()`
wgWait == \A w \in Workers : wk[w].pc = "exit"

\* go func() { wg.Wait(); close(msgChan) }()
poolCloser ==
    /\ variant = "pool" /\ ~msgClosed
    /\ wgWait
    /\ msgClosed' = TRUE
    /\ UNCHANGED <<cfgVars, envVars, pc, ret, messages, listVars, taskVars,
                   jobChan, msgChan, jobClosed, wk, aggVars, retryVars, unitVars, uiVars>>

\* the collecting loop's select: a message is appended; the closed and
\* drained channel returns (messages, nil); the timer and the caller's
\* context each cancel the workers and return an error
poolCollect ==
    /\ variant = "pool" /\ pc = "running"
    /\ \/ /\ msgChan # <<>>
          /\ messages' = Append(messages, Head(msgChan))
          /\ msgChan' = Tail(msgChan)
          /\ UNCHANGED <<pc, ret, ctxErr>>
       \/ /\ msgChan = <<>> /\ msgClosed
          /\ pc' = "returned"
          /\ ret' = [val |-> messages, err |-> "nil"]
          /\ ctxErr' = CancelOnReturn
          /\ UNCHANGED <<messages, msgChan>>
       \/ /\ deadline
          /\ pc' = "returned"
          /\ ret' = [val |-> <<>>, err |-> "TimedOut"]
          /\ ctxErr' = CancelOnReturn
          /\ UNCHANGED <<messages, msgChan>>
       \/ /\ extCancel
          /\ pc' = "returned"
          /\ ret' = [val |-> <<>>, err |-> "Canceled"]
          /\ ctxErr' = CancelOnReturn
          /\ UNCHANGED <<messages, msgChan>>
    /\ UNCHANGED <<cfgVars, deadline, extCancel, early, listVars, taskVars,
                   jobChan, jobClosed, msgClosed, wk, aggVars, retryVars, unitVars, uiVars>>

NextPool ==
    \/ poolListerTop \/ poolListerCall \/ poolListerWait
    \/ poolListerSend \/ poolListerNext
    \/ \E w \in Workers : poolWorkerRecv(w)
    \/ \E w \in Workers : poolWorkerCall(w)
    \/ \E w \in Workers : poolWorkerWait(w)
    \/ \E w \in Workers : poolWorkerEmit(w)
    \/ poolCloser
    \/ poolCollect

\* ------------------------------------------------------------------------
\* GmailService.listSpamMessages of part_003: an AsyncStream fed by one
\* detached task per message, raced against a sleeping task
\* ------------------------------------------------------------------------

\* one pass of the producer's repeat loop: the list request returns a page,
\* or throws, which the catch answers with continuation.finish()
swiftList ==
    /\ variant = "swift" /\ lpc = "list"
    /\ \/ /\ \E k \in 0..MaxIds, more \in BOOLEAN : ListPage(k, more)
          /\ lpc' = "spawn"
          /\ msgClosed' = msgClosed
       \/ /\ lpc' = "failed"
          /\ msgClosed' = TRUE
          /\ UNCHANGED <<pageNo, pageEnd, hasNext, tokenVars>>
    /\ UNCHANGED <<cfgVars, envVars, pc, ret, messages, listTry, total,
                   taskVars, jobChan, msgChan, jobClosed, wk, aggVars, retryVars, unitVars, uiVars>>

\* Task.detached { ... } for the next message of the page
swiftSpawn ==
    /\ variant = "swift" /\ lpc = "spawn"
    /\ total < pageEnd
    /\ total' = total + 1
    /\ st' = [st EXCEPT ![total + 1] = "call"]
    /\ UNCHANGED <<cfgVars, envVars, pc, ret, messages, lpc, listTry, pageNo,
                   pageEnd, hasNext, tokenVars, try, sem, mu, chanVars, aggVars, retryVars, unitVars, uiVars>>

\* pageToken = response.nextPageToken; the loop ends on nil and the
\* producer's `defer { continuation.finish() }` runs
swiftNext ==
    /\ variant = "swift" /\ lpc = "spawn"
    /\ total = pageEnd
    /\ IF hasNext THEN lpc' = "list" /\ msgClosed' = msgClosed
                  ELSE lpc' = "done" /\ msgClosed' = TRUE
    /\ TakeToken
    /\ UNCHANGED <<cfgVars, envVars, pc, ret, messages, listTry, pageNo, total,
                   pageEnd, hasNext, taskVars, jobChan, msgChan, jobClosed, wk, aggVars, retryVars, unitVars, uiVars>>

\* continuation.yield(fullMsg): buffered, or ignored on a finished stream
swiftYield(i) ==
    IF msgClosed
    THEN /\ st' = [st EXCEPT ![i] = "lost"]
         /\ msgChan' = msgChan
    ELSE /\ st' = [st EXCEPT ![i] = "ok"]
         /\ msgChan' = Append(msgChan, Fetched(i))

\* a detached task's request returns: the message is yielded, or the error
\* is printed and skipped
swiftFetch(i) ==
    /\ variant = "swift" /\ st[i] = "call"
    /\ \/ swiftYield(i)
       \/ /\ st' = [st EXCEPT ![i] = "dropped"]
          /\ msgChan' = msgChan
    /\ UNCHANGED <<cfgVars, envVars, pc, ret, messages, listVars, try, sem, mu,
                   jobChan, jobClosed, msgClosed, wk, aggVars, retryVars, unitVars, uiVars>>

\* `for await message in messageStream`, and what follows the loop; raced
\* by withTimeout against the sleeping task, which throws timedOut
swiftConsume ==
    /\ variant = "swift" /\ pc = "running"
    /\ \/ /\ msgChan # <<>>
          /\ messages' = Append(messages, Head(msgChan))
          /\ msgChan' = Tail(msgChan)
          /\ UNCHANGED <<pc, ret>>
       \/ /\ msgChan = <<>> /\ msgClosed
          /\ pc' = "returned"
          /\ ret' = IF messages = <<>> /\ pageEnd = 0
                    THEN [val |-> <<>>, err |-> "noSpamMessagesFound"]
                    ELSE [val |-> messages, err |-> "nil"]
          /\ UNCHANGED <<messages, msgChan>>
       \/ /\ deadline
          /\ pc' = "returned"
          /\ ret' = [val |-> <<>>, err |-> "TimedOut"]
          /\ UNCHANGED <<messages, msgChan>>
    /\ UNCHANGED <<cfgVars, envVars, listVars, taskVars, jobChan, jobClosed,
                   msgClosed, wk, aggVars, retryVars, unitVars, uiVars>>

NextSwift ==
    \/ swiftList \/ swiftSpawn \/ swiftNext
    \/ \E i \in Ids : swiftFetch(i)
    \/ swiftConsume

\* ------------------------------------------------------------------------
\* listSpamMessages of part_001 and part_004: one goroutine per message,
\* an unbuffered msgChan, retries without a limit
\* ------------------------------------------------------------------------

\* the inner `for` around req.Do(): the page is kept and the loop left, or
\* the call failed and time.Sleep(fib.next() seconds) follows
legacyList ==
    /\ variant = "legacy" /\ pc = "running" /\ lpc = "list"
    /\ \/ /\ \E k \in 0..MaxIds, more \in BOOLEAN : ListPage(k, more)
          /\ lpc' = "spawn"
       \/ /\ lpc' = "sleep"
          /\ UNCHANGED <<pageNo, pageEnd, hasNext, tokenVars>>
    /\ UNCHANGED <<cfgVars, envVars, pc, ret, messages, listTry, total,
                   taskVars, chanVars, aggVars, retryVars, unitVars, uiVars>>

\* the sleep after a failed list call ends; the call is made again
legacyListSleep ==
    /\ variant = "legacy" /\ pc = "running" /\ lpc = "sleep"
    /\ lpc' = "list"
    /\ UNCHANGED <<cfgVars, envVars, pc, ret, messages, listTry, pageNo, total,
                   pageEnd, hasNext, tokenVars, taskVars, chanVars, aggVars, retryVars, unitVars, uiVars>>

\* wg.Add(1); go func(messageId) {...}(msg.Id); total++
legacySpawn ==
    /\ variant = "legacy" /\ pc = "running" /\ lpc = "spawn"
    /\ total < pageEnd
    /\ total' = total + 1
    /\ st' = [st EXCEPT ![total + 1] = "call"]
    /\ UNCHANGED <<cfgVars, envVars, pc, ret, messages, lpc, listTry, pageNo,
                   pageEnd, hasNext, tokenVars, try, sem, mu, chanVars, aggVars, retryVars, unitVars, uiVars>>

\* pageToken = r.NextPageToken; after the last page wg.Done() and
\* timeout := time.After(...)
legacyNext ==
    /\ variant = "legacy" /\ pc = "running" /\ lpc = "spawn"
    /\ total = pageEnd
    /\ lpc' = IF hasNext THEN "list" ELSE "collect"
    /\ TakeToken
    /\ UNCHANGED <<cfgVars, envVars, pc, ret, messages, listTry, pageNo, total,
                   pageEnd, hasNext, taskVars, chanVars, aggVars, retryVars, unitVars, uiVars>>

\* a goroutine's Get(...).Do() returns: with the message, which it then
\* offers on msgChan, or with an error, after which it sleeps
legacyFetch(i) ==
    /\ variant = "legacy" /\ st[i] = "call"
    /\ \/ st' = [st EXCEPT ![i] = "fetched"]
       \/ st' = [st EXCEPT ![i] = "idle"]
    /\ UNCHANGED <<cfgVars, envVars, pc, ret, messages, listVars, try, sem, mu,
                   chanVars, aggVars, retryVars, unitVars, uiVars>>

\* the sleep after a failed get call ends; the call is made again
legacyTaskSleep(i) ==
    /\ variant = "legacy" /\ st[i] = "idle"
    /\ st' = [st EXCEPT ![i] = "call"]
    /\ UNCHANGED <<cfgVars, envVars, pc, ret, messages, listVars, try, sem, mu,
                   chanVars, aggVars, retryVars, unitVars, uiVars>>

\* go func() { wg.Wait(); close(msgChan); close(errChan) }(): the counter
\* is 0 once the main goroutine's wg.Done() has run and every message's
\* goroutine has returned
legacyCloser ==
    /\ variant = "legacy" /\ ~msgClosed
    /\ lpc \in {"collect", "collect2", "done"}
    /\ \A i \in 1..total : st[i] = "ok"
    /\ msgClosed' = TRUE
    /\ UNCHANGED <<cfgVars, envVars, pc, ret, messages, listVars, taskVars,
                   jobChan, msgChan, jobClosed, wk, aggVars, retryVars, unitVars, uiVars>>

\* the collecting select: a goroutine's send on the unbuffered msgChan is
\* received and appended; a closed channel is set to nil, and with both
\* nil the loop ends; the timer returns the timeout error
legacyCollect ==
    /\ variant = "legacy" /\ pc = "running" /\ lpc \in {"collect", "collect2"}
    /\ \/ /\ lpc = "collect"
          /\ \E i \in Ids :
                /\ st[i] = "fetched"
                /\ messages' = Append(messages, Fetched(i))
                /\ st' = [st EXCEPT ![i] = "ok"]
          /\ UNCHANGED <<pc, ret, lpc>>
       \/ /\ msgClosed /\ lpc = "collect"
          /\ lpc' = "collect2"
          /\ UNCHANGED <<pc, ret, messages, st>>
       \/ /\ msgClosed /\ lpc = "collect2"
          /\ lpc' = "done"
          /\ pc' = "returned"
          /\ ret' = [val |-> messages, err |-> "nil"]
          /\ UNCHANGED <<messages, st>>
       \/ /\ deadline
          /\ pc' = "returned"
          /\ ret' = [val |-> <<>>, err |-> "TimedOut"]
          /\ UNCHANGED <<messages, st, lpc>>
    /\ UNCHANGED <<cfgVars, envVars, listTry, pageNo, total, pageEnd, hasNext, tokenVars,
                   try, sem, mu, chanVars, aggVars, retryVars, unitVars, uiVars>>

NextLegacy ==
    \/ legacyList \/ legacyListSleep \/ legacySpawn \/ legacyNext
    \/ \E i \in Ids : legacyFetch(i)
    \/ \E i \in Ids : legacyTaskSleep(i)
    \/ legacyCloser
    \/ legacyCollect

\* ------------------------------------------------------------------------
\* The program: getSpamCounts calls listSpamMessages and folds its result
\* ------------------------------------------------------------------------

PipeVariants == {"semaphore", "pool", "swift"}

InitFor(V) ==
    /\ variant \in V
    /\ nworkers \in IF variant \in {"swift", "legacy"} THEN {1} ELSE 1..MaxWorkers
    /\ deadline = FALSE /\ extCancel = FALSE /\ ctxErr = "nil" /\ early = FALSE
    /\ pc = "running"
    /\ ret = [val |-> <<>>, err |-> "nil"]
    /\ messages = <<>>
    /\ lpc = IF variant = "pool" THEN "top" ELSE "list"
    /\ listTry = 0 /\ pageNo = 0 /\ total = 0 /\ pageEnd = 0
    /\ hasNext = FALSE
    /\ pageToken = 0 /\ reqToken = 0 /\ respToken = 0
    /\ st = [i \in Ids |-> "none"]
    /\ try = [i \in Ids |-> 0]
    /\ sem = 0 /\ mu = 0
    /\ jobChan = <<>> /\ msgChan = <<>> /\ jobClosed = FALSE /\ msgClosed = FALSE
    /\ wk = IF variant = "pool" THEN [w \in Workers |-> [pc |-> "recv", job |-> 0]]
                              ELSE <<>>
    /\ AggInit({0})
    /\ RetryOff
    /\ UnitsOff

Init == InitFor(PipeVariants)

Next ==
    \/ Deadline \/ ExternalCancel
    \/ NextSemaphore
    \/ NextPool
    \/ NextSwift
    \/ getSpamCounts

Spec == Init /\ [][Next]_vars

\* each generation on its own
InitSemaphore == InitFor({"semaphore"})
NextSem == Deadline \/ ExternalCancel \/ NextSemaphore \/ getSpamCounts
SpecSemaphore == InitSemaphore /\ [][NextSem]_vars

InitPool == InitFor({"pool"})
NextWorkerPool == Deadline \/ ExternalCancel \/ NextPool \/ getSpamCounts
SpecPool == InitPool /\ [][NextWorkerPool]_vars

InitSwift == InitFor({"swift"})
NextSwiftRun == Deadline \/ NextSwift \/ getSpamCounts
SpecSwift == InitSwift /\ [][NextSwiftRun]_vars

\* listSpamMessages of part_000 under a scheduler that lets the function and
\* every goroutine take the steps they can take; neither the timer nor the
\* caller's cancellation need happen
NextSemRun == Deadline \/ ExternalCancel \/ NextSemaphore
FairSemaphore ==
    /\ InitSemaphore /\ [][NextSemRun]_vars
    /\ WF_vars(semList) /\ WF_vars(semDispatch) /\ WF_vars(semAcquire)
    /\ WF_vars(semNextPage) /\ WF_vars(semWait)
    /\ \A i \in Ids : /\ WF_vars(semTaskAttempt(i)) /\ WF_vars(semTaskResult(i))
                     /\ WF_vars(semTaskAppend(i))

\* a step of the lister goroutine of main.go
poolListerStep ==
    \/ poolListerTop \/ poolListerCall \/ poolListerWait
    \/ poolListerSend \/ poolListerNext

\* a step of one of the worker goroutines of main.go
poolWorkerStep ==
    \E w \in Workers :
        \/ poolWorkerRecv(w) \/ poolWorkerCall(w)
        \/ poolWorkerWait(w) \/ poolWorkerEmit(w)

\* listSpamMessages of main.go under a scheduler that does not stop the
\* lister while it can take a step, nor the workers while one of them can,
\* nor the closer, nor the collecting loop, and with a timer of time.After
\* that fires; the caller's cancellation need not happen
NextPoolRun == Deadline \/ ExternalCancel \/ NextPool
FairPool ==
    /\ InitPool /\ [][NextPoolRun]_vars
    /\ WF_vars(poolListerStep)
    /\ WF_vars(poolWorkerStep)
    /\ WF_vars(poolCloser) /\ WF_vars(poolCollect)
    /\ WF_vars(Deadline)

\* part_001 and part_004 under a scheduler that lets every goroutine that
\* can take a step take one, ends every sleep and fires the timer
InitLegacy == InitFor({"legacy"})
NextLegacyRun == Deadline \/ NextLegacy \/ getSpamCounts
FairLegacy ==
    /\ InitLegacy /\ [][NextLegacyRun]_vars
    /\ WF_vars(legacyList) /\ WF_vars(legacyListSleep)
    /\ WF_vars(legacySpawn) /\ WF_vars(legacyNext)
    /\ \A i \in Ids : WF_vars(legacyFetch(i)) /\ WF_vars(legacyTaskSleep(i))
    /\ WF_vars(legacyCloser) /\ WF_vars(legacyCollect)
    /\ WF_vars(Deadline) /\ WF_vars(getSpamCounts)

\* part_000 and main.go against a remote on which every call fails: no
\* list call returns a page, so no identifier is ever listed and no get
\* call is made. Every goroutine that can take a step takes one and the
\* -timeout timer fires; the caller need not cancel.
semListFails == semList /\ pageNo' = pageNo
poolListerCallFails == poolListerCall /\ pageNo' = pageNo
InitFailing == InitFor(GoVariants)
NextFailing ==
    \/ Deadline \/ ExternalCancel
    \/ semListFails
    \/ poolListerTop \/ poolListerCallFails \/ poolListerWait
    \/ \E w \in Workers : poolWorkerRecv(w)
    \/ poolCloser
    \/ poolCollect
    \/ getSpamCounts
FairFailing ==
    /\ InitFailing /\ [][NextFailing]_vars
    /\ WF_vars(semListFails)
    /\ WF_vars(poolListerTop) /\ WF_vars(poolListerCallFails)
    /\ WF_vars(poolListerWait)
    /\ \A w \in 1..MaxWorkers : WF_vars(w \in Workers /\ poolWorkerRecv(w))
    /\ WF_vars(poolCloser) /\ WF_vars(poolCollect)
    /\ WF_vars(Deadline) /\ WF_vars(getSpamCounts)

\* ------------------------------------------------------------------------
\* Properties of listSpamMessages
\* ------------------------------------------------------------------------

Returned == pc = "returned"

\* identifiers of the records of a sequence
IdsOf(l) == { l[n].id : n \in 1..Len(l) }

\* records of a sequence that carry the identifier i
Copies(l, i) == Cardinality({ n \in 1..Len(l) : l[n].id = i })

\* C1: in the Go variants at most nworkers fetches are in flight at any
\* moment, the token channel never holds more than nworkers tokens, and with
\* one worker no two get calls overlap.
C1_InFlightBounded ==
    variant \in GoVariants =>
        /\ Cardinality(InFlight) <= nworkers
        /\ sem <= nworkers
        /\ nworkers = 1 => Cardinality({ i \in Ids : st[i] = "call" }) <= 1

\* the pool is saturated and the dispatch loop waits for a token
C1_Witness ==
    /\ variant = "semaphore" /\ lpc = "acquire"
    /\ sem = nworkers /\ Cardinality(InFlight) = nworkers

\* C2: a run whose deadline elapsed before listing had finished and every
\* fetch had ended returns a timeout error.
C2_EarlyDeadlineIsAnError ==
    (Returned /\ variant \in GoVariants /\ early /\ ~extCancel) =>
        ret.err \in {"TimedOut", "DeadlineExceeded"}

\* C3: a run that returns without an error has listed up to a page without
\* a token, and every fetch it handed on ran to its own end.
C3_SuccessIsComplete ==
    (Returned /\ variant \in GoVariants /\ ret.err = "nil" /\ ~extCancel) =>
        /\ lpc = "done" /\ ~hasNext /\ total = pageEnd
        /\ \A i \in 1..total : st[i] \in {"ok", "dropped"}

\* C4: a run whose list call was given up returns an error and no messages.
C4_ListFailureIsAnError ==
    (Returned /\ variant \in GoVariants /\ lpc = "failed" /\ ~extCancel) =>
        ret.err # "nil" /\ ret.val = <<>>

\* C5: without timeout, cancellation or a list call given up, a run returns
\* no error and exactly the messages whose fetch succeeded, whatever number
\* of other fetches were given up.
C5_DroppedFetchIsNotFatal ==
    (Returned /\ variant \in GoVariants /\ ~deadline /\ ~extCancel /\ lpc # "failed") =>
        /\ ret.err = "nil"
        /\ IdsOf(ret.val) = { i \in Ids : st[i] = "ok" }
        /\ \A i \in 1..total : st[i] \in {"ok", "dropped"}

\* a run that returned with one fetch given up and another one kept
C5_Witness ==
    /\ Returned /\ variant \in GoVariants /\ ~deadline /\ ~extCancel
    /\ \E i, j \in Ids : st[i] = "dropped" /\ st[j] = "ok" /\ j \in IdsOf(ret.val)

\* C6: once listSpamMessages has returned, no fetch it handed on is still
\* queued or running.
C6_NoTaskOutlivesReturn ==
    (Returned /\ variant \in GoVariants /\ ~extCancel) =>
        \A i \in Ids : st[i] \notin Running \cup {"queued"}

\* C7: a run that ends without an error, timeout or cancellation and with
\* no fetch given up returns exactly one record for every identifier of
\* every page listed; pages [1,2], [3], [] give 2024-01-02: 2, 2024-01-03: 1.
C7_EveryListedIdOnce ==
    /\ (Returned /\ ret.err = "nil" /\ ~deadline /\ ~extCancel
            /\ \A i \in Ids : st[i] # "dropped") =>
          \A i \in 1..pageEnd : Copies(ret.val, i) = 1
    /\ (aggPc = "done" /\ ~deadline /\ ~extCancel /\ pageNo = 3 /\ pageEnd = 3
            /\ \A i \in Ids : st[i] # "dropped") =>
          dailyCounts = (FormatDate([year |-> 2024, month |-> 1, day |-> 2]) :> 2)
                            @@ (FormatDate([year |-> 2024, month |-> 1, day |-> 3]) :> 1)

\* C10: no identifier ever has more than one record among the messages
\* collected and the messages still in the result channel.
C10_AtMostOneRecordPerId ==
    \A i \in Ids : Copies(messages \o msgChan, i) <= 1

\* a message was kept after a failed attempt
C10_Witness ==
    \E i \in Ids : st[i] = "ok" /\ try[i] > 0 /\ Copies(messages, i) = 1

\* C14: once the context the goroutines look at is done, no get call is
\* started for any message, and no message that was not already fetched
\* gets a record.
C14_NoCallAfterCancel ==
    [][(variant \in GoVariants /\ ctxErr # "nil" /\ ~extCancel) =>
          \A i \in Ids :
              /\ st'[i] = "call" => st[i] = "call"
              /\ (st'[i] = "ok" /\ st[i] # "ok") => st[i] \in {"call", "fetched", "locked"}]_vars

\* C15: once the context is done, the dispatch loop takes no further
\* identifier: no token is acquired, no job is put into jobChan and no
\* identifier that was not handed on is handed on.
C15_NoDispatchAfterCancel ==
    [][(variant \in GoVariants /\ ctxErr # "nil" /\ ~extCancel) =>
          /\ sem' <= sem
          /\ total' = total
          /\ Len(jobChan') <= Len(jobChan)
          /\ \A i \in Ids : st[i] = "none" => st'[i] = "none"]_vars

\* C17: a run cut short by the caller's cancellation returns "context
\* canceled", a run cut short by the elapsed deadline returns a timeout
\* error; neither error is returned for the other cause, and neither comes
\* with messages.
C17_CancelAndTimeoutDiffer ==
    (Returned /\ variant \in GoVariants) =>
        /\ ret.err \in {"nil", "ListFailed", "Canceled", "TimedOut", "DeadlineExceeded"}
        /\ ret.err = "Canceled" => extCancel /\ ret.val = <<>>
        /\ ret.err \in {"TimedOut", "DeadlineExceeded"} => deadline /\ ret.val = <<>>
        /\ (extCancel /\ ~deadline /\ \E i \in Ids : st[i] = "aborted") =>
              ret.err = "Canceled"
        /\ (deadline /\ ~extCancel /\ \E i \in Ids : st[i] = "aborted") =>
              ret.err \in {"TimedOut", "DeadlineExceeded"}

\* C12: against a remote on which every list and get call fails, a run of
\* listSpamMessages (part_000, main.go) eventually returns to its caller,
\* and it returns without having listed any identifier
C12_FailingRemoteTerminates == <>(Returned /\ total = 0 /\ pageNo = 0)

\* the retries of the list call were used up and the function returned
\* before the timer fired and without a cancellation by the caller
C12_Witness ==
    /\ Returned /\ lpc = "failed" /\ pageNo = 0
    /\ ~deadline /\ ~extCancel

\* a retry loop around a list call, or around the get call of message i,
\* is running
ListRetrying == lpc \in {"list", "sleep", "call", "idle", "top"}
GetRetrying(i) == st[i] \in {"call", "idle"}

\* C13: every retry loop is left at some time: the loop around a list call
\* and the loop around each message's get call, whatever the remote answers.
C13_RetryLoopsEnd ==
    /\ <>(~ListRetrying)
    /\ \A i \in Ids : GetRetrying(i) ~> ~GetRetrying(i)

\* every goroutine the run started has returned (an identifier left in
\* jobChan belongs to no goroutine)
AllGoroutinesEnded ==
    /\ \A i \in Ids : st[i] \notin Running
    /\ variant = "pool" =>
          /\ msgClosed /\ lpc \in {"done", "failed", "stopped"}
          /\ \A w \in Workers : wk[w].pc = "exit"
    /\ variant = "legacy" => msgClosed

\* C16: after a run has returned the timeout or the cancellation error,
\* every goroutine it started ends at some time.
C16_GoroutinesEndAfterAbort ==
    (Returned /\ ret.err \in {"TimedOut", "DeadlineExceeded", "Canceled"})
        ~> AllGoroutinesEnded

RECURSIVE FetchedInIdOrder(_)
\* the messages of the identifiers 1..n whose fetch succeeded, by identifier
FetchedInIdOrder(n) ==
    IF n = 0 THEN <<>>
    ELSE FetchedInIdOrder(n - 1) \o (IF st[n] = "ok" THEN <<Fetched(n)>> ELSE <<>>)

\* C21: a run of part_000 or main.go that completed without timeout and
\* without cancellation returns the histogram that the remote's answers
\* determine: the one of the fetched messages taken by identifier, whatever
\* the order in which the goroutines delivered them.
C21_HistogramIgnoresCompletionOrder ==
    (variant \in GoVariants /\ aggPc = "done" /\ ~deadline /\ ~extCancel)
        => dailyCounts = foldAll(variant, <<>>, FetchedInIdOrder(MaxIds),
                                 Len(FetchedInIdOrder(MaxIds)), tz)

\* two messages with different dates were delivered against the order of
\* their identifiers, and the histogram holds both
C21_Witness ==
    /\ variant \in GoVariants /\ aggPc = "done" /\ ~deadline /\ ~extCancel
    /\ Len(ret.val) = 2 /\ ret.val[1].id > ret.val[2].id
    /\ ret.val[1].internalDate # ret.val[2].internalDate
    /\ Cardinality(DOMAIN dailyCounts) = 2

\* C23: the -timeout timer counts from the start of the run, so it elapses
\* (unless the run has returned before) even while list calls are being
\* retried, and a run that is still retrying list calls when it elapses
\* returns.
C23_TimeoutBoundsListing ==
    /\ <>(deadline \/ Returned)
    /\ (deadline /\ ListRetrying) ~> Returned

\* C29: in part_000 a token is held exactly for each task that has started
\* and not ended; the step that ends a task (message kept, retries used
\* up, or context done) gives one token back; when no task is running no
\* token is held; and the dispatch loop never waits for a token forever.
C29_TokenReleasedOnce ==
    /\ [](variant = "semaphore" => sem = Cardinality(InFlight))
    /\ [][\A i \in Ids : (st[i] \in Running /\ st'[i] \notin Running)
                            => sem' = sem - 1]_vars
    /\ (lpc = "acquire") ~> (lpc # "acquire")

\* a run has returned after one task used up its retries and another saw
\* the context done, and no token is held
C29_Witness ==
    /\ variant = "semaphore" /\ Returned /\ sem = 0
    /\ \E i, j \in Ids : st[i] = "dropped" /\ st[j] = "aborted"

\* the listing loop of part_000 or main.go is at a list call
AtListCall ==
    \/ variant = "semaphore" /\ lpc = "list"
    \/ variant = "pool" /\ lpc \in {"top", "call", "idle"}

\* C30: whenever the listing loop is at a list call, every identifier of
\* the pages received so far has been handed on: its token was acquired and
\* its task started (part_000), or it was put into jobChan (main.go).
C30_PageHandedOnBeforeNextList ==
    AtListCall =>
        /\ total = pageEnd
        /\ \A i \in 1..pageEnd : st[i] # "none"

\* the list call for the second page is about to be made, after a first
\* page that held identifiers
C30_Witness ==
    /\ AtListCall /\ pageNo = 1 /\ hasNext
    /\ pageEnd >= 1 /\ total = pageEnd

\* the listing loop is about to make a list call (first try or a retry)
ListCallNext ==
    \/ variant = "semaphore" /\ pc = "running" /\ lpc = "list"
    \/ variant = "pool" /\ lpc \in {"top", "call", "idle"}
    \/ variant = "swift" /\ lpc = "list"

\* the listing loop was left by its break: part_000 waits for the group or
\* has returned after it, the lister of main.go and the producer of part_003
\* have ended
LoopLeftByBreak == lpc \in {"wait", "done"}

\* C31: listing is sequential. Pages arrive one at a time; the request that
\* brings page k+1 carries the token the response of page k held (none for
\* the first page); a list call is made only before the first page or after
\* a response that held a token; and the loop is left by its break only
\* after a response without a token, whatever the number of identifiers in
\* that response. Otherwise listing ends only by a list call given up or a
\* context found done.
C31_ListingSequential ==
    /\ [][pageNo' # pageNo =>
            /\ pageNo' = pageNo + 1
            /\ reqToken' = respToken
            /\ ListCallNext]_vars
    /\ [](ListCallNext => pageNo = 0 \/ respToken # 0)
    /\ [](LoopLeftByBreak => pageNo > 0 /\ respToken = 0 /\ total = pageEnd)
    /\ [][(ListCallNext /\ ~ListCallNext' /\ pageNo' = pageNo)
            => lpc' \in {"failed", "stopped"}]_vars

\* the second page was asked for with the token the first page held, it
\* held no token itself, and the loop was left with identifiers handed on
C31_Witness ==
    /\ LoopLeftByBreak /\ pageNo = 2
    /\ reqToken = PageTokenOf(1) /\ respToken = 0
    /\ pageEnd >= 1 /\ total = pageEnd

\* the tasks of part_000 that are between mu.Lock() and mu.Unlock()
Locked == { i \in Ids : st[i] = "locked" }

\* C32: no two goroutines change the shared result at the same time. In
\* part_000 the task that holds mu is the only one between Lock and Unlock,
\* and each change of messages is the append of that task, which then
\* unlocks. In main.go each change of messages is the collecting loop taking
\* the head of msgChan, with no worker moving in that step. The histogram
\* changes only in getSpamCounts after listSpamMessages has returned, in a
\* step that moves no task and no worker.
C32_NoConcurrentMutation ==
    /\ [](variant = "semaphore" => \A i \in Ids : i \in Locked <=> mu = i)
    /\ [][(variant = "semaphore" /\ messages' # messages) =>
            \E i \in Locked :
                /\ mu = i /\ mu' = 0
                /\ messages' = Append(messages, Fetched(i))]_vars
    /\ [][(variant = "pool" /\ messages' # messages) =>
            /\ pc = "running" /\ msgChan # <<>>
            /\ messages' = Append(messages, Head(msgChan))
            /\ wk' = wk /\ st' = st]_vars
    /\ [][dailyCounts' # dailyCounts =>
            /\ pc = "returned" /\ aggPc = "call"
            /\ wk' = wk /\ st' = st /\ messages' = messages]_vars

\* one task of part_000 holds mu while another task, running at the same
\* time, has its get call outstanding and will want mu next
C32_Witness ==
    /\ variant = "semaphore" /\ sem = 2
    /\ \E i, j \in Ids : i # j /\ mu = i /\ st[i] = "locked" /\ st[j] = "call"

\* C36: in main.go msgChan goes from open to closed once and is never open
\* again; the step that closes it is taken when every worker goroutine has
\* returned; from then on every worker stays returned and nothing is put
\* into msgChan; and the channel does get closed.
C36_MsgChanClosedAfterWorkers ==
    /\ [][msgClosed' # msgClosed =>
            /\ ~msgClosed /\ msgClosed'
            /\ \A w \in Workers : wk[w].pc = "exit"]_vars
    /\ [](msgClosed => \A w \in Workers : wk[w].pc = "exit")
    /\ [][msgClosed => Len(msgChan') <= Len(msgChan)]_vars
    /\ <>msgClosed

\* msgChan is closed after one worker sent its message and another left at
\* the send because the context was done
C36_Witness ==
    /\ variant = "pool" /\ msgClosed
    /\ \E i, j \in Ids : st[i] = "ok" /\ st[j] = "aborted"

\* a goroutine of main.go's pipeline can take a step
PoolCanStep == ENABLED NextPool

\* C37: while listSpamMessages of main.go has not returned, the lister, a
\* worker, the closer or the collecting loop can take a step, whatever the
\* channels hold; and with every remote call returning and the timer firing
\* listSpamMessages returns.
C37_PoolNeverStuck ==
    /\ [](pc = "running" => PoolCanStep)
    /\ <>Returned

\* msgChan is full, a worker holds a fetched message it cannot send yet,
\* no context is done and the function has not returned
C37_Witness ==
    /\ variant = "pool" /\ pc = "running" /\ ~deadline /\ ~extCancel
    /\ ~HasRoom(msgChan)
    /\ \E w \in Workers : wk[w].pc = "busy" /\ st[wk[w].job] = "fetched"

\* ------------------------------------------------------------------------
\* getSpamCounts on its own: listSpamMessages is a stub that has returned
\* ------------------------------------------------------------------------

MinusOneMs   == Ms(-1, 999)
PlusOneMs    == Ms(0, 1)
Oct2Early    == Ms(1696215600, 0)

DateSamples == {EpochZero, MinusOneMs, PlusOneMs, Jan2Noon2024, Jan3Noon2024, Oct2Early}

\* what the remote may send as one message's internalDate
Payloads(v) ==
    { [dated |-> TRUE, internalDate |-> t] : t \in DateSamples }
        \cup (IF v = "swift" THEN { [dated |-> FALSE, internalDate |-> EpochZero] } ELSE {})

StubLists(v) ==
    UNION { { [i \in 1..n |-> [id |-> i, dated |-> f[i].dated,
                                internalDate |-> f[i].internalDate]] :
                f \in [1..n -> Payloads(v)] } :
            n \in 0..MaxLen }

PipeIdle ==
    /\ nworkers = 1
    /\ deadline = FALSE /\ extCancel = FALSE /\ ctxErr = "Canceled" /\ early = FALSE
    /\ pc = "returned"
    /\ messages = ret.val
    /\ lpc = "done" /\ listTry = 0 /\ pageNo = 0 /\ total = 0 /\ pageEnd = 0
    /\ hasNext = FALSE
    /\ pageToken = 0 /\ reqToken = 0 /\ respToken = 0
    /\ st = <<>> /\ try = <<>> /\ sem = 0 /\ mu = 0
    /\ jobChan = <<>> /\ msgChan = <<>> /\ jobClosed = TRUE /\ msgClosed = TRUE
    /\ wk = <<>>

InitAgg ==
    /\ variant \in AllVariants
    /\ ret \in { [val |-> l, err |-> "nil"] : l \in StubLists(variant) }
              \cup { [val |-> <<>>, err |-> "TimedOut"] }
    /\ PipeIdle
    /\ AggInit(TZOffsets)
    /\ RetryOff
    /\ UnitsOff

NextAgg == getSpamCounts

SpecAgg == InitAgg /\ [][NextAgg]_vars

\* ------------------------------------------------------------------------
\* Properties of getSpamCounts
\* ------------------------------------------------------------------------

\* internalDate > 0 on the int64 value, stated on its own
Positive(t) == t.sec > 0 \/ (t.sec = 0 /\ t.milli > 0)

\* the key a message with a positive internalDate belongs under
DateKey(m, off) == FormatDate(LocalDate(m.internalDate.sec, off))

\* positions among the first n of the list l whose message is valid
ValidIn(l, n) == { i \in 1..n : l[i].dated /\ Positive(l[i].internalDate) }

RECURSIVE SumOver(_, _)
SumOver(f, S) ==
    IF S = {} THEN 0
    ELSE LET k == CHOOSE x \in S : TRUE IN f[k] + SumOver(f, S \ {k})

TotalCount(dc) == SumOver(dc, DOMAIN dc)

\* C8: when getSpamCounts of part_000 or main.go returns, every key of the
\* histogram counts exactly the messages with internalDate > 0 whose local
\* date is that key, every such message has its key, no key counts 0, and
\* the counts add up to the number of messages with internalDate > 0.
C8_HistogramCountsValid ==
    (aggPc = "done" /\ variant \in GoVariants /\ ret.err = "nil") =>
        LET l == ret.val
            V == ValidIn(l, Len(l))
        IN  /\ \A k \in DOMAIN dailyCounts :
                  /\ dailyCounts[k] = Cardinality({ i \in V : DateKey(l[i], tz) = k })
                  /\ dailyCounts[k] > 0
            /\ \A i \in V : DateKey(l[i], tz) \in DOMAIN dailyCounts
            /\ TotalCount(dailyCounts) = Cardinality(V)

\* a list with an invalid message and two valid ones on the same date
C8_Witness ==
    /\ aggPc = "done" /\ variant \in GoVariants
    /\ Len(ret.val) = MaxLen
    /\ \E i \in 1..Len(ret.val) : ret.val[i].internalDate = EpochZero
    /\ \E k \in DOMAIN dailyCounts : dailyCounts[k] = 2

\* C9: in every variant, a message whose internalDate is <= 0 adds nothing
\* to the histogram: the counts never add up to more than the number of
\* valid messages of the list.
C9_NonPositiveDiscarded ==
    aggPc = "done" =>
        TotalCount(dailyCounts) <= Cardinality(ValidIn(ret.val, Len(ret.val)))

\* the list l in the order given by the permutation p of its positions
Reordered(l, p) == [n \in 1..Len(l) |-> l[p[n]]]

\* C20: the histogram getSpamCounts returns for a list of messages is the
\* one it would return for every reordering of that list.
C20_FoldOrderIndependent ==
    (aggPc = "done" /\ ret.err = "nil") =>
        \A p \in Permutations(1..Len(ret.val)) :
            foldAll(variant, <<>>, Reordered(ret.val, p), Len(ret.val), tz) = dailyCounts

\* a list whose messages fall on different dates, in some order
C20_Witness ==
    /\ aggPc = "done" /\ ret.err = "nil" /\ Len(ret.val) >= 2
    /\ Cardinality(DOMAIN dailyCounts) >= 2
    /\ \E i \in 1..Len(ret.val) : NonPositive(ret.val[i].internalDate)

\* the keys "2023-10-01" and "2023-10-02"
Oct1Key == <<"2", "0", "2", "3", "-", "1", "0", "-", "0", "1">>
Oct2Key == <<"2", "0", "2", "3", "-", "1", "0", "-", "0", "2">>

\* offset of America/New_York in October 2023 (EDT)
NewYorkEDT == -14400

\* the list holds a message of 2023-10-02 03:00 UTC
HasOct2Early == \E n \in 1..Len(ret.val) :
                    ret.val[n].dated /\ ret.val[n].internalDate = Oct2Early

\* C24: the key of a message is the calendar date of its instant in the
\* local zone, not in UTC: a message of 2023-10-02 03:00 UTC is counted
\* under 2023-10-01 where local time is more than three hours behind UTC
\* (New York), and under 2023-10-02 elsewhere; every valid message has the
\* key of its local date.
C24_KeyIsLocalDate ==
    (aggPc = "done" /\ ret.err = "nil") =>
        /\ HasOct2Early =>
              IF tz < -10800
              THEN Oct1Key \in DOMAIN dailyCounts /\ Oct2Key \notin DOMAIN dailyCounts
              ELSE Oct2Key \in DOMAIN dailyCounts /\ Oct1Key \notin DOMAIN dailyCounts
        /\ \A n \in ValidIn(ret.val, Len(ret.val)) :
              DateKey(ret.val[n], tz) \in DOMAIN dailyCounts

\* part_000 in New York has counted the message of 2023-10-02 03:00 UTC
\* under 2023-10-01
C24_Witness ==
    /\ aggPc = "done" /\ variant = "semaphore" /\ tz = NewYorkEDT
    /\ HasOct2Early
    /\ Oct1Key \in DOMAIN dailyCounts

\* ------------------------------------------------------------------------
\* retryWithBackoff on its own: one invocation with an arbitrary operation
\* ------------------------------------------------------------------------

AggIdle ==
    /\ variant = "semaphore"
    /\ ret = [val |-> <<>>, err |-> "nil"]
    /\ tz = 0 /\ dailyCounts = <<>> /\ aggPc = "done"

InitRetry ==
    /\ AggIdle
    /\ PipeIdle
    /\ RetryEntry
    /\ UnitsOff

NextRetry == retryTop \/ retryOp \/ retryWake \/ retryCtxDone

SpecRetry == InitRetry /\ [][NextRetry]_vars

\* ------------------------------------------------------------------------
\* Properties of retryWithBackoff
\* ------------------------------------------------------------------------

\* time.Sleep(wait + jitter)
SleepMs == rwait + rjit

RECURSIVE Pow2(_)
Pow2(n) == IF n = 0 THEN 1 ELSE 2 * Pow2(n - 1)

Min(a, b) == IF a < b THEN a ELSE b

C18_FatalNotRetried ==
    [][rerr.kind = "Fatal" => rcalls' = rcalls]_vars

\* C19: the sleep after the failed attempt i (0..6) lasts
\* min(300 * 2^i, 10000) ms plus a jitter of 0..199 ms, so between 300 and
\* 10199 ms; after the 8th failed call there is no sleep.
C19_SleepSchedule ==
    /\ rpc = "sleep" =>
          /\ ri \in 0..(maxAttempts - 2)
          /\ rwait = Min(InitialWaitMs * Pow2(ri), MaxWaitMs)
          /\ rjit \in 0..(JitterMs - 1)
          /\ SleepMs >= 300 /\ SleepMs <= 10199
    /\ rcalls = maxAttempts => rpc # "sleep"

\* the longest sleep: after the seventh failure, with the largest jitter
C19_Witness ==
    /\ rpc = "sleep" /\ ri = maxAttempts - 2 /\ SleepMs = 10199

\* ------------------------------------------------------------------------
\* The jitter step on its own: one worker, any configured ceiling
\* ------------------------------------------------------------------------

InitJitter ==
    /\ AggIdle
    /\ PipeIdle
    /\ RetryOff
    /\ JitterEntry
    /\ FibOff
    /\ TokenOff
    /\ UiOff

NextJitter == jitterDraw \/ jitterWake

SpecJitter == InitJitter /\ [][NextJitter]_vars

\* ------------------------------------------------------------------------
\* Properties of the jitter step
\* ------------------------------------------------------------------------

\* C22: for every ceiling >= 0 the jitter step ends normally: the worker
\* never panics in it, a ceiling of 0 means no sleep, a ceiling above 0
\* means a sleep of at least 0 and less than the ceiling, and the fetch is
\* then attempted.
C22_JitterNeverCrashes ==
    /\ jpc # "panic"
    /\ jpc \in {"sleeping", "fetch"} =>
          IF initialDelay = 0 THEN jsleep = 0
                              ELSE 0 <= jsleep /\ jsleep < initialDelay

\* ------------------------------------------------------------------------
\* Fib on its own: a Fib made by NewFib or written as a literal, on a build
\* of either width, and calls of Next
\* ------------------------------------------------------------------------

InitFib ==
    /\ AggIdle
    /\ PipeIdle
    /\ RetryOff
    /\ JitterOff
    /\ TokenOff
    /\ UiOff
    /\ intBits \in {32, 64}
    /\ NewFib \/ FibLiteral
    /\ fibRet = GoInt(0, intBits) /\ fibCalls = 0

NextFib == fibNext

SpecFib == InitFib /\ [][NextFib]_vars

\* ------------------------------------------------------------------------
\* Properties of Fib
\* ------------------------------------------------------------------------

\* the values TestFibonacci expects of the first ten calls
Expected10 == <<1, 2, 3, 5, 8, 13, 21, 34, 55, 89>>

RECURSIVE FibPair(_)
\* (F(n), F(n+1)) of the sequence 0, 1, 1, 2, 3, 5, ...
FibPair(n) ==
    IF n = 0 THEN <<0, 1>>
    ELSE LET p == FibPair(n - 1) IN <<p[2], p[1] + p[2]>>

\* C25: on a Fib made by NewFib the first ten calls of Next return 1, 2, 3,
\* 5, 8, 13, 21, 34, 55, 89, and after n calls (n up to 44, on either
\* width) the Fib holds (F(n), F(n+1)) and the n-th call has returned
\* F(n+1): each call returns the sum of the two stored values and stores
\* (old value2, sum).
C25_NextFollowsFibonacci ==
    fibFresh =>
        /\ fibCalls \in 1..10 => Small(fibRet) /\ Val(fibRet) = Expected10[fibCalls]
        /\ fibCalls \in 0..44 =>
              /\ Small(value1) /\ Small(value2)
              /\ <<Val(value1), Val(value2)>> = FibPair(fibCalls)
        /\ fibCalls \in 1..44 => fibRet = value2

\* the tenth call on a fresh Fib has returned 89
C25_Witness ==
    /\ fibFresh /\ fibCalls = 10
    /\ Val(fibRet) = 89 /\ Val(value1) = 55 /\ Val(value2) = 89

\* C26: Next returns -1 when the sum of the two stored values overflows;
\* in particular it returns -1 for value1 = 2147483647 and value2 = 1.
C26_OverflowReturnsMinusOne ==
    [][/\ (~IsNeg(value1, intBits) /\ ~IsNeg(value2, intBits)
              /\ IsNeg(Add(value1, value2, intBits), intBits))
          => fibRet' = GoInt(-1, intBits)
       /\ (value1 = GoInt(MaxInt32, intBits) /\ value2 = GoInt(1, intBits))
          => fibRet' = GoInt(-1, intBits)]_vars

\* C27: for a Fib with value1 < 0 or value2 < 0, Next returns -1 (and
\* leaves the Fib as it is).
C27_NegativeReturnsMinusOne ==
    [][(IsNeg(value1, intBits) \/ IsNeg(value2, intBits))
          => /\ fibRet' = GoInt(-1, intBits)
             /\ UNCHANGED <<value1, value2>>]_vars

\* Next was called on a Fib whose value2 alone is negative
C27_Witness ==
    /\ fibCalls > 0 /\ ~fibFresh
    /\ ~IsNeg(value1, intBits) /\ IsNeg(value2, intBits)
    /\ fibRet = GoInt(-1, intBits)

\* C38: a call of Next that returns -1 leaves value1 and value2 as they
\* were; after a call that returned -1 every later call on the same Fib
\* returns -1; and a call that changes value1 or value2 returns a value
\* that is not negative.
C38_MinusOneIsSticky ==
    [][/\ fibRet' = GoInt(-1, intBits) => UNCHANGED <<value1, value2>>
       /\ (fibCalls > 0 /\ fibRet = GoInt(-1, intBits)) => fibRet' = GoInt(-1, intBits)
       /\ <<value1, value2>>' # <<value1, value2>> => ~IsNeg(fibRet', intBits)]_vars

\* on a build with a 32-bit int the 46th to the 48th call on a Fib made by
\* NewFib have returned -1, and the fields are as the 45th call left them
C38_Witness ==
    /\ fibFresh /\ intBits = 32 /\ fibCalls = 48
    /\ fibRet = GoInt(-1, intBits)
    /\ value1 = GoInt(1134903170, intBits) /\ value2 = GoInt(1836311903, intBits)

\* ------------------------------------------------------------------------
\* Token persistence on its own: saveToken followed by tokenFromFile, and
\* tokenFromFile on a file that holds no JSON
\* ------------------------------------------------------------------------

InitToken ==
    /\ AggIdle
    /\ PipeIdle
    /\ RetryOff
    /\ JitterOff
    /\ FibOff
    /\ UiOff
    /\ loaded = [err |-> "nil", tok |-> EmptyToken]
    /\ \/ /\ tokPc = "save"
          /\ tok \in Tokens
          /\ tokFile \in {"absent", NotJson}
       \/ /\ tokPc = "file"
          /\ tok = EmptyToken
          /\ tokFile \in BadFiles

NextToken == saveToken \/ tokenFromFile

SpecToken == InitToken /\ [][NextToken]_vars

\* ------------------------------------------------------------------------
\* Properties of token persistence
\* ------------------------------------------------------------------------

\* C28: once saveToken(path, tok) has returned, tokenFromFile(path) returns
\* no error and a token with tok's AccessToken and RefreshToken; on a file
\* that holds no valid JSON tokenFromFile returns an error.
C28_TokenRoundTrips ==
    /\ tokPc = "reloaded" =>
          /\ loaded.err = "nil"
          /\ loaded.tok.AccessToken = tok.AccessToken
          /\ loaded.tok.RefreshToken = tok.RefreshToken
    /\ tokPc = "read" => loaded.err # "nil"

\* ------------------------------------------------------------------------
\* printSpamSummary on its own: any histogram over a few days, any cutoff
\* ------------------------------------------------------------------------

\* counts a key holds
MaxCount == 2

\* day numbers of 2024-01-01, 2024-01-02, 2024-02-01 and 10000-01-01, the
\* local day of an internalDate of 253402300800000 ms in UTC
Jan1Day2024 == 19723
Feb1Day2024 == 19754
Jan1Day10000 == 2932897
DaySamples == {Jan1Day2024, Jan1Day2024 + 1, Feb1Day2024, Jan1Day10000}

\* days time.Now().AddDate(0, 0, -*days) falls on
CutoffDays == {Jan1Day2024 + 1, Feb1Day2024}

\* the key getSpamCounts makes for a message of that local day
KeyOfDay(d) == FormatDate(CivilFromDays(d))

\* histograms getSpamCounts can return
Histograms ==
    UNION { [ { KeyOfDay(d) : d \in D } -> 1..MaxCount ] : D \in SUBSET DaySamples }

InitPrint ==
    /\ AggIdle
    /\ PipeIdle
    /\ RetryOff
    /\ JitterOff
    /\ FibOff
    /\ TokenOff
    /\ AuthOff
    /\ spamCounts \in Histograms
    /\ cutoffDate \in { KeyOfDay(d) : d \in CutoffDays }
    /\ dates = <<>> /\ di = 0 /\ outputState = "FirstLine" /\ ptotal = 0
    /\ stdout = <<>> /\ ppc = "call"

NextPrint == printStart \/ printDate \/ printTotal

SpecPrint == InitPrint /\ [][NextPrint]_vars

\* ------------------------------------------------------------------------
\* Properties of printSpamSummary
\* ------------------------------------------------------------------------

IsDateLine(l) == l.kind = "date"

\* the lines printed for dates, in the order printed
DateLines == SelectSeq(stdout, IsDateLine)

\* the day a key was made from
DayOfKey(k) == CHOOSE d \in DaySamples : KeyOfDay(d) = k

\* C33: when printSpamSummary has returned, it has printed one line for each
\* key of the histogram, with the key's count, in ascending order of the
\* keys as strings, which is the order of their days; the last line is the
\* total, and the total is the sum of the counts of the histogram.
C33_SummaryListsEveryKey ==
    ppc = "done" =>
        /\ Len(DateLines) = Cardinality(DOMAIN spamCounts)
        /\ \A k \in DOMAIN spamCounts :
              \E n \in 1..Len(DateLines) :
                  DateLines[n].date = k /\ DateLines[n].count = spamCounts[k]
        /\ \A a, b \in 1..Len(DateLines) :
              a < b => /\ StrLess(DateLines[a].date, DateLines[b].date)
                       /\ DayOfKey(DateLines[a].date) < DayOfKey(DateLines[b].date)
        /\ stdout[Len(stdout)] = TotalLine(TotalCount(spamCounts))

\* positions of stdout that hold the blank separator line
Blanks == { n \in 1..Len(stdout) : stdout[n] = BlankLine }

\* the key sorts before cutoffDate
BeforeCutoff(k) == StrLess(k, cutoffDate)

\* C35: outputState never goes back: it leaves FirstLine once, and changes
\* after that only from BeforeDate to OnOrAfterDate. When printSpamSummary
\* has returned, the blank line has been printed at most once; it has been
\* printed exactly when the histogram has a key before cutoffDate and a key
\* on or after it; it is never the first line printed; and it stands between
\* the line of a date before cutoffDate and the line of the first date on
\* or after cutoffDate.
C35_SeparatorOnceBetweenSections ==
    /\ [][outputState' # outputState =>
            \/ outputState = "FirstLine"
            \/ outputState = "BeforeDate" /\ outputState' = "OnOrAfterDate"]_vars
    /\ [](ppc = "done" =>
            /\ Cardinality(Blanks) <= 1
            /\ Blanks # {} <=>
                  /\ \E k \in DOMAIN spamCounts : BeforeCutoff(k)
                  /\ \E k \in DOMAIN spamCounts : ~BeforeCutoff(k)
            /\ \A n \in Blanks :
                  /\ n > 1
                  /\ IsDateLine(stdout[n - 1]) /\ BeforeCutoff(stdout[n - 1].date)
                  /\ IsDateLine(stdout[n + 1]) /\ ~BeforeCutoff(stdout[n + 1].date)
                  /\ \A a \in 1..(n - 1) : IsDateLine(stdout[a]) => BeforeCutoff(stdout[a].date))

\* ------------------------------------------------------------------------
\* getTokenFromWeb on its own: any requests, any line on standard input
\* ------------------------------------------------------------------------

InitAuth ==
    /\ AggIdle
    /\ PipeIdle
    /\ RetryOff
    /\ JitterOff
    /\ FibOff
    /\ TokenOff
    /\ PrintOff
    /\ AuthEntry

NextAuth ==
    \/ \E r \in Requests : authHandler(r)
    \/ authStdin
    \/ authReceive
    \/ authTimeout
    \/ authShutdown

SpecAuth == InitAuth /\ [][NextAuth]_vars

\* ------------------------------------------------------------------------
\* Properties of getTokenFromWeb
\* ------------------------------------------------------------------------

\* the step is the handler answering a request
Handled == served' = served + 1

\* C34: the handler puts a code into authCodeChan only when the request is
\* for path "/", its state parameter is the flow's state and its code is not
\* empty, and then the code is the request's; a request for another path or
\* with another or no state leaves the channel as it is and is answered 404
\* or 400; a request that arrives while the channel holds a code leaves the
\* channel as it is; and while the server serves, the handler can answer any
\* request.
C34_HandlerGuardsState ==
    /\ [][(Handled /\ authCodeChan' # authCodeChan) =>
            /\ request'.path = "/" /\ request'.state = state /\ request'.code # ""
            /\ authCodeChan = <<>>
            /\ authCodeChan' = <<[code |-> request'.code, from |-> "handler"]>>]_vars
    /\ [][(Handled /\ (request'.path # "/" \/ request'.state # state)) =>
            /\ authCodeChan' = authCodeChan
            /\ status' \in {400, 404}]_vars
    /\ [][(Handled /\ authCodeChan # <<>>) => authCodeChan' = authCodeChan]_vars
    /\ []((Serving /\ served < MaxRequests) =>
            \A r \in Requests : ENABLED authHandler(r))

\* a second request with the flow's state and a code was answered with 200
\* while the channel still held the code of the first
C34_Witness ==
    /\ served >= 2 /\ status = 200
    /\ request.path = "/" /\ request.state = state /\ request.code = "c2"
    /\ authCodeChan = <<[code |-> "c1", from |-> "handler"]>>

====
